---- MODULE Spec2Model ----
(***************************************************************************)
(* SafeErase core engine: the wipe engine (core-engine/src/wipe.rs), the   *)
(* algorithm catalog it consumes (core-engine/src/algorithms.rs) and the   *)
(* platform device port it drives (core-engine/src/platform).              *)
(*                                                                         *)
(* One wipe_device call is a caller (the async fn awaiting the spawned     *)
(* task) plus the spawned task running execute_wipe_operation.  The task   *)
(* is cut into steps at its suspension points and at every read of the     *)
(* cancellation token, which another thread may trip at any moment.        *)
(* The outcomes of the platform port (external commands, sector reads)     *)
(* are inputs chosen by the environment.                                   *)
(***************************************************************************)
EXTENDS Integers, Sequences, FiniteSets, TLC

(***************************************************************************)
(* Bounds of the model                                                     *)
(***************************************************************************)
\* largest device size, in bytes
MaxDeviceSize == 3
\* largest block_size option below the clamp, in bytes
MaxBlockOpt == 2
\* where the counters of blocks written after a token trip or a timeout stop
WriteCountCap == 2
\* latest instant of the wall clock (Utc::now) and of certificate timestamps
MaxTime == 2
\* largest device size the sampling plan is computed for, in MiB (101 GiB)
MaxDeviceMiB == 103424
\* largest device size sample locations are generated for, in bytes
MaxDeviceBytes == 12288
\* largest sample_count sample locations are generated for
MaxLocations == 4
\* largest block generate_data is asked for, in bytes
MaxDataSize == 2

(***************************************************************************)
(* Program constants                                                       *)
(***************************************************************************)
\* wipe.rs:442  options.block_size.min(1024 * 1024)
MaxBlockSize == 1048576
\* wipe.rs:484  options.verification_samples.min(1000)
MaxVerifySamples == 1000
\* u8
ByteMod == 256

\* the operation ids (Uuid::new_v4, distinct per call)
Ops == {1, 2}
\* the operations a single-caller run starts
SoloOps == {1}

(***************************************************************************)
(* algorithms.rs: WipePattern and WipeAlgorithm                            *)
(***************************************************************************)
Zeros == [kind |-> "Zeros", byte |-> 0, bytes |-> <<>>]
Ones == [kind |-> "Ones", byte |-> 0, bytes |-> <<>>]
Fixed(b) == [kind |-> "Fixed", byte |-> b, bytes |-> <<>>]
Random == [kind |-> "Random", byte |-> 0, bytes |-> <<>>]
PseudoRandom(seed) == [kind |-> "PseudoRandom", byte |-> seed, bytes |-> <<>>]
Complement == [kind |-> "Complement", byte |-> 0, bytes |-> <<>>]
Pattern(p) == [kind |-> "Pattern", byte |-> 0, bytes |-> p]

NIST80088 == [name |-> "NIST80088", custom |-> <<>>]
DoD522022M == [name |-> "DoD522022M", custom |-> <<>>]
Gutmann == [name |-> "Gutmann", custom |-> <<>>]
RandomAlg == [name |-> "Random", custom |-> <<>>]
ZeroFill == [name |-> "ZeroFill", custom |-> <<>>]
OneFill == [name |-> "OneFill", custom |-> <<>>]
ATASecureErase == [name |-> "ATASecureErase", custom |-> <<>>]
NVMeFormat == [name |-> "NVMeFormat", custom |-> <<>>]
Custom(l) == [name |-> "Custom", custom |-> l]

gutmann_patterns ==
    << Random, Random, Random, Random,
       Pattern(<<85, 85, 85>>), Pattern(<<170, 170, 170>>),
       Pattern(<<146, 73, 36>>), Pattern(<<73, 36, 146>>),
       Pattern(<<36, 146, 73>>),
       Zeros,
       Pattern(<<17, 17, 17>>), Pattern(<<34, 34, 34>>),
       Pattern(<<51, 51, 51>>), Pattern(<<68, 68, 68>>),
       Pattern(<<85, 85, 85>>), Pattern(<<102, 102, 102>>),
       Pattern(<<119, 119, 119>>), Pattern(<<136, 136, 136>>),
       Pattern(<<153, 153, 153>>), Pattern(<<170, 170, 170>>),
       Pattern(<<187, 187, 187>>), Pattern(<<204, 204, 204>>),
       Pattern(<<221, 221, 221>>), Pattern(<<238, 238, 238>>),
       Ones,
       Pattern(<<146, 73, 36>>), Pattern(<<73, 36, 146>>),
       Pattern(<<36, 146, 73>>),
       Pattern(<<109, 182, 219>>), Pattern(<<182, 219, 109>>),
       Pattern(<<219, 109, 182>>),
       Random, Random, Random, Random >>

\* a catalog whose DoD 5220.22-M stops after the two fixed passes
patterns_two_pass_dod(a) ==
    CASE a.name = "NIST80088" -> <<Random>>
      [] a.name = "DoD522022M" -> <<Zeros, Ones>>
      [] a.name = "Gutmann" -> gutmann_patterns
      [] a.name = "Random" -> <<Random>>
      [] a.name = "ZeroFill" -> <<Zeros>>
      [] a.name = "OneFill" -> <<Ones>>
      [] a.name = "ATASecureErase" -> <<>>
      [] a.name = "NVMeFormat" -> <<>>
      [] a.name = "Custom" -> a.custom

patterns(a) ==
    CASE a.name = "NIST80088" -> <<Random>>
      [] a.name = "DoD522022M" -> <<Zeros, Ones, Random>>
      [] a.name = "Gutmann" -> gutmann_patterns
      [] a.name = "Random" -> <<Random>>
      [] a.name = "ZeroFill" -> <<Zeros>>
      [] a.name = "OneFill" -> <<Ones>>
      [] a.name = "ATASecureErase" -> <<>>
      [] a.name = "NVMeFormat" -> <<>>
      [] a.name = "Custom" -> a.custom

is_hardware_based(a) == a.name \in {"ATASecureErase", "NVMeFormat"}

Min(a, b) == IF a < b THEN a ELSE b

\* the bytes a CSPRNG block may consist of (two representatives of u8)
RandomBytes == {60, 167}

\* ChaCha20Rng::seed_from_u64(seed): a keystream that is a function of the
\* seed and the position only
KeyStream(seed, i) == ((seed + 1) * 37 + i * 101) % ByteMod

\* !b on u8
NotByte(b) == (ByteMod - 1) - b

Fill(b, size) == [i \in 1..size |-> b]

\* generate_data panics (index out of range / remainder by zero) for an
\* empty Pattern and a non-empty block
generate_data_panics(pattern, size) ==
    pattern.kind = "Pattern" /\ Len(pattern.bytes) = 0 /\ size > 0

\* the set of byte vectors generate_data(size, previous_data) may return;
\* previous_data is <<"None">> or <<"Some", bytes>>
generate_data(pattern, size, previous_data) ==
    CASE pattern.kind = "Zeros" -> {Fill(0, size)}
      [] pattern.kind = "Ones" -> {Fill(ByteMod - 1, size)}
      [] pattern.kind = "Fixed" -> {Fill(pattern.byte, size)}
      [] pattern.kind = "Random" -> [1..size -> RandomBytes]
      [] pattern.kind = "PseudoRandom" ->
            {[i \in 1..size |-> KeyStream(pattern.byte, i - 1)]}
      [] pattern.kind = "Complement" ->
            IF previous_data[1] = "Some"
            THEN {[i \in 1..Len(previous_data[2]) |-> NotByte(previous_data[2][i])]}
            ELSE {Fill(ByteMod - 1, size)}
      [] pattern.kind = "Pattern" ->
            IF Len(pattern.bytes) = 0
            THEN {<<>>}
            ELSE {[i \in 1..size |-> pattern.bytes[((i - 1) % Len(pattern.bytes)) + 1]]}


(***************************************************************************)
(* device.rs: the opened devices the engine is handed                      *)
(***************************************************************************)
\* Device::supports_hpa_dco
supports_hpa_dco(d) == d.supports_hpa_detection \/ d.supports_dco_detection

Disk(path, s, sys, hpa, dco) ==
    [path |-> path, size |-> s, is_system_disk |-> sys,
     supports_hpa_detection |-> hpa, supports_dco_detection |-> dco,
     logical_sector_size |-> 1]

\* the machine: a system disk with HPA and DCO detection, a data disk with
\* HPA detection only, and data disks of every size with neither
Devices ==
    {Disk("/dev/sda", 1, TRUE, TRUE, TRUE),
     Disk("/dev/sdb", 1, FALSE, TRUE, FALSE)}
      \cup {Disk("/dev/sdc", s, FALSE, FALSE, FALSE) : s \in 0..MaxDeviceSize}

(***************************************************************************)
(* wipe.rs: WipeOptions, WipeResult                                        *)
(***************************************************************************)
\* operation_timeout is "Some" or "None"; progress_interval and
\* max_concurrent_ops are never read by the engine
BlockSizes == (0..MaxBlockOpt) \cup {MaxBlockSize + 1}

\* verification_samples is read only when verify_wipe is set
OptionSet ==
    { opt \in [verify_wipe : BOOLEAN, verification_samples : {0, 1},
               clear_hpa_dco : BOOLEAN, block_size : BlockSizes,
               operation_timeout : {"None", "Some"},
               prefer_hardware_erase : BOOLEAN] :
        opt.verify_wipe \/ opt.verification_samples = 1 }

\* the algorithms the callers of the model ask for
Algorithms ==
    {ZeroFill, DoD522022M, ATASecureErase, NVMeFormat,
     Custom(<<>>), Custom(<<Zeros, Complement>>), Custom(<<Pattern(<<>>)>>)}

NoRequest == [device |-> "none"]

\* no cancel_operation call has returned yet
NoCall == [id |-> 0, ret |-> "None"]

TerminalStatus == {"Completed", "Failed", "Cancelled"}

\* the WipeResult execute_wipe_operation starts from (wipe.rs:221-248)
InitialResult(verify) ==
    [status |-> "Initializing", completed_at |-> FALSE, duration |-> FALSE,
     bytes_wiped |-> 0, passes_completed |-> 0,
     verification_requested |-> verify, verification_passed |-> "None",
     hpa_detected |-> FALSE, hpa_cleared |-> FALSE,
     dco_detected |-> FALSE, dco_cleared |-> FALSE,
     error_message |-> "None", wipe_time |-> FALSE,
     verification_time |-> FALSE, total_time |-> FALSE]

NoLocals ==
    [pass_index |-> 0, bytes_wiped |-> 0, block_size |-> 0,
     total_blocks |-> 0, block_index |-> 0, bytes_written |-> 0,
     previous_data |-> <<"None">>]

\* one entry of the record of what an operation did to its device
Event(kind, pass, off, data) ==
    [kind |-> kind, pass |-> pass, off |-> off, data |-> data]

VARIABLES
    active_operations,  \* WipeEngine.active_operations: the ids, in Vec order
    cancelled,          \* the CancellationToken of each operation
    request,            \* the arguments of each wipe_device call
    callerPc,           \* where each wipe_device call stands
    callRet,            \* what each wipe_device call returned
    taskPc,             \* where each spawned task stands
    result,             \* the task's WipeResult
    locals,             \* locals of perform_wipe / wipe_with_pattern
    trace,              \* the commands each operation issued to its device
    late,               \* history: blocks written since the token trip and since
                        \* the timeout; whether the token was tripped while the
                        \* task was still running, and while a hardware
                        \* command was in flight
    statuses,           \* history: the values result.status went through
    progress,           \* the WipeProgress messages sent on each progress_tx
    cancelRet           \* what the latest cancel_operation call returned

engineVars == <<active_operations, cancelled, request, callerPc, callRet, taskPc,
                result, locals, trace, late, statuses, progress, cancelRet>>

\* certificate-gen: a CertificateSigner, a CertificateVerifier, and the
\* certificate passed between them
VARIABLES
    clock,              \* Utc::now()
    signer,             \* the CertificateSigner: private_key, public_key, key_id
    trusted_keys,       \* CertificateVerifier.trusted_keys: key_id -> public key
    certificate,        \* the WipeCertificate handed to sign_certificate
    signed_certificate, \* what sign_certificate returned
    received_certificate, \* the SignedCertificate handed to verify_certificate
    verifyRet           \* what verify_certificate returned

certVars == <<clock, signer, trusted_keys, certificate, signed_certificate,
              received_certificate, verifyRet>>

\* core-engine verification: one sample under analysis, and one run of
\* perform_verification
VARIABLES
    sample,             \* the sample buffer handed to analyze_sector
    sample_algorithm,   \* wipe_result.algorithm of the sample's wipe
    sample_analysis,    \* the SectorAnalysis analyze_sector returned
    acceptable,         \* <<what is_sample_acceptable returned>>, once called
    verification,       \* perform_verification's arguments and sampling plan
    buffers,            \* history: the buffers the loop has read
    sector_analyses,    \* perform_verification's sector_analyses
    samples_passed,     \* perform_verification's samples_passed
    verification_result \* the VerificationResult it returned

verifVars == <<sample, sample_algorithm, sample_analysis, acceptable, verification,
               buffers, sector_analyses, samples_passed, verification_result>>

VARIABLES
    devices,            \* SafeEraseEngine.devices: the paths of the devices held open
    discovered,         \* history: the list the latest discover_devices returned
    invocation,         \* the latest call of a library function and its arguments
    returned            \* what that call returned

libVars == <<devices, discovered, invocation, returned>>

vars == <<engineVars, certVars, verifVars, libVars>>

NoSigner == [key_id |-> <<>>]
NoCertificate == [version |-> "none"]
\* sign_certificate has not been called
NotSigned == [err |-> "NotCalled"]

Init ==
    /\ active_operations = <<>>
    /\ cancelled = [o \in Ops |-> FALSE]
    /\ request = [o \in Ops |-> NoRequest]
    /\ callerPc = [o \in Ops |-> "idle"]
    /\ callRet = [o \in Ops |-> "None"]
    /\ taskPc = [o \in Ops |-> "none"]
    /\ result = [o \in Ops |-> InitialResult(FALSE)]
    /\ locals = [o \in Ops |-> NoLocals]
    /\ trace = [o \in Ops |-> <<>>]
    /\ late = [o \in Ops |-> [cancel |-> 0, timeout |-> 0, tripped_live |-> FALSE,
                              during_hw |-> FALSE]]
    /\ statuses = [o \in Ops |-> <<>>]
    /\ progress = [o \in Ops |-> <<>>]
    /\ cancelRet = NoCall
    /\ clock = 0
    /\ signer = NoSigner
    /\ trusted_keys = {}
    /\ certificate = NoCertificate
    /\ signed_certificate = NotSigned
    /\ received_certificate = NotSigned
    /\ verifyRet = "None"
    /\ sample = "none"
    /\ sample_algorithm = [name |-> "none"]
    /\ sample_analysis = [pattern_type |-> "none"]
    /\ acceptable = <<>>
    /\ verification = [sample_count |-> 0]
    /\ buffers = <<>>
    /\ sector_analyses = <<>>
    /\ samples_passed = 0
    /\ verification_result = [overall_result |-> "none"]
    /\ devices = <<>>
    /\ discovered = <<>>
    /\ invocation = [fn |-> "none"]
    /\ returned = [fn |-> "none"]

\* a lookup that finds every id
RegisteredAlways(o) == TRUE

\* active_ops.iter().find(|op| op.id == operation_id) finds an operation
Registered(o) == \E i \in 1..Len(active_operations) : active_operations[i] = o

\* a retain with the test inverted: it keeps the entries of the id
RetainOwn(ops, o) == SelectSeq(ops, LAMBDA x : x = o)

\* Vec::retain(|op| op.id != operation_id)
Retain(ops, o) == SelectSeq(ops, LAMBDA x : x # o)

Log(o, ev) == trace' = [trace EXCEPT ![o] = Append(@, ev)]

\* every assignment that changes result.status is recorded
Track(o) ==
    statuses' = [statuses EXCEPT ![o] =
                    IF result'[o].status = result[o].status THEN @
                    ELSE Append(@, result'[o].status)]

(***************************************************************************)
(* WipeEngine::wipe_device, the caller side                                *)
(***************************************************************************)
\* wipe.rs:141-175: register the operation and spawn its task
WipeDeviceStart(o, d, a, opt) ==
    /\ callerPc[o] = "idle"
    /\ request' = [request EXCEPT ![o] = [device |-> d, algorithm |-> a, options |-> opt]]
    /\ active_operations' = Append(active_operations, o)
    /\ callerPc' = [callerPc EXCEPT ![o] = "waiting"]
    /\ taskPc' = [taskPc EXCEPT ![o] = "spawned"]
    /\ UNCHANGED <<cancelled, callRet, result, locals, trace, late, statuses, progress,
                   cancelRet, certVars, verifVars, libVars>>

\* a removal that empties the registry
RemoveOnReturnAll(ops, o) == <<>>

\* wipe.rs:180 / 192 then 200-207: the task returned Ok(result)
RemoveOnReturn(ops, o) == Retain(ops, o)

WipeDeviceReturn(o) ==
    /\ callerPc[o] = "waiting"
    /\ taskPc[o] = "done"
    /\ active_operations' = RemoveOnReturn(active_operations, o)
    /\ callerPc' = [callerPc EXCEPT ![o] = "returned"]
    /\ callRet' = [callRet EXCEPT ![o] = "Ok"]
    /\ UNCHANGED <<cancelled, request, taskPc, result,
                 locals, trace, late, statuses, progress, cancelRet, certVars, verifVars, libVars>>

\* wipe.rs:185-188: the timer fired before the task finished; the JoinHandle
\* is dropped, which detaches the task
WipeDeviceTimeout(o) ==
    /\ callerPc[o] = "waiting"
    /\ request[o].options.operation_timeout = "Some"
    /\ taskPc[o] \notin {"done", "panicked"}
    /\ callerPc' = [callerPc EXCEPT ![o] = "returned"]
    /\ callRet' = [callRet EXCEPT ![o] = "Timeout"]
    /\ UNCHANGED <<active_operations, cancelled, request, taskPc, result,
                 locals, trace, late, statuses, progress, cancelRet, certVars, verifVars, libVars>>

\* wipe.rs:181-184 / 193-196: the task panicked (JoinError)
WipeDeviceJoinError(o) ==
    /\ callerPc[o] = "waiting"
    /\ taskPc[o] = "panicked"
    /\ callerPc' = [callerPc EXCEPT ![o] = "returned"]
    /\ callRet' = [callRet EXCEPT ![o] =
                     IF request[o].options.operation_timeout = "Some"
                     THEN "JoinError" ELSE "Internal"]
    /\ UNCHANGED <<active_operations, cancelled, request, taskPc, result,
                 locals, trace, late, statuses, progress, cancelRet, certVars, verifVars, libVars>>

(***************************************************************************)
(* WipeEngine::get_active_operations and cancel_operation                  *)
(***************************************************************************)
\* the operation ids wipe_device has generated so far (wipe.rs:141), the
\* only ids a client can have learnt
IssuedIds == {o \in Ops : request[o] # NoRequest}

\* wipe.rs:529-532
get_active_operations == {active_operations[i] : i \in 1..Len(active_operations)}

\* a cancel that trips the token of every registered operation
CancelEveryOperation(o) ==
    /\ IF Registered(o)
       THEN /\ cancelled' = [x \in Ops |-> cancelled[x] \/ Registered(x)]
            /\ cancelRet' = [id |-> o, ret |-> "Ok"]
       ELSE /\ cancelRet' = [id |-> o, ret |-> "Err"]
            /\ UNCHANGED cancelled
    /\ UNCHANGED <<active_operations, request, callerPc, callRet, taskPc, result,
                   locals, trace, late, statuses, progress, certVars, verifVars, libVars>>

\* wipe.rs:535-544: Ok(()) after cancelling the token of the operation found,
\* Err(Internal("Operation .. not found")) when none is found
CancelOperation(o) ==
    /\ IF Registered(o)
       THEN /\ cancelled' = [cancelled EXCEPT ![o] = TRUE]
            /\ late' = [late EXCEPT
                   ![o].tripped_live =
                       @ \/ (~cancelled[o] /\ taskPc[o] \notin {"done", "panicked"}),
                   ![o].during_hw =
                       @ \/ (~cancelled[o] /\ taskPc[o] = "hw_wait")]
            /\ cancelRet' = [id |-> o, ret |-> "Ok"]
       ELSE /\ cancelRet' = [id |-> o, ret |-> "Err"]
            /\ UNCHANGED <<cancelled, late>>
    /\ UNCHANGED <<active_operations, request, callerPc, callRet, taskPc, result,
                   locals, trace, statuses, progress, certVars, verifVars, libVars>>


(***************************************************************************)
(* WipeEngine::execute_wipe_operation, the spawned task                    *)
(***************************************************************************)
Dev(o) == request[o].device
Alg(o) == request[o].algorithm
Opt(o) == request[o].options

SetPc(o, pc) == taskPc' = [taskPc EXCEPT ![o] = pc]

\* wipe.rs:218-256: build the result, first look at the token
TaskBegin(o) ==
    /\ taskPc[o] = "spawned"
    /\ IF cancelled[o]
       THEN /\ result' = [result EXCEPT ![o] =
                   [InitialResult(Opt(o).verify_wipe) EXCEPT !.status = "Cancelled"]]
            /\ SetPc(o, "done")
       ELSE /\ result' = [result EXCEPT ![o] = InitialResult(Opt(o).verify_wipe)]
            /\ SetPc(o, "pre_wipe")
    /\ statuses' = [statuses EXCEPT ![o] =
                       IF cancelled[o] THEN <<"Initializing", "Cancelled">>
                       ELSE <<"Initializing">>]
    /\ UNCHANGED <<active_operations, cancelled, request, callerPc, callRet,
                 locals, trace, late, progress, cancelRet, certVars, verifVars, libVars>>

\* wipe.rs:259
PreWipeWanted(o) == Opt(o).clear_hpa_dco /\ supports_hpa_dco(Dev(o))

\* wipe.rs:259-263: the HPA command is issued
DetectHPAStart(o) ==
    /\ taskPc[o] = "pre_wipe"
    /\ PreWipeWanted(o)
    /\ result' = [result EXCEPT ![o].status = "DetectingHPA"]
    /\ SetPc(o, "hpa_call")
    /\ Log(o, Event("hpa", 0, 0, <<>>))
    /\ Track(o)
    /\ UNCHANGED <<active_operations, cancelled, request, callerPc,
                 callRet, locals, late, progress, cancelRet, certVars, verifVars, libVars>>

\* platform/linux.rs:261-284: hdparm -N, then hdparm -N p when the output
\* names an HPA.  env = what the two commands did.
HpaEnvs ==
    [spawn_ok : BOOLEAN, status_ok : BOOLEAN, has_hpa : BOOLEAN,
     clear_spawn_ok : BOOLEAN, clear_ok : BOOLEAN]

detect_and_clear_hpa(env) ==
    IF ~env.spawn_ok THEN "Err"
    ELSE IF env.status_ok /\ env.has_hpa
         THEN IF ~env.clear_spawn_ok THEN "Err"
              ELSE IF env.clear_ok THEN "OkTrue" ELSE "OkFalse"
         ELSE "OkFalse"

\* an HPA step whose error ends the operation (`?` instead of the match)
DetectHPAResultAborting(o, env) ==
    /\ taskPc[o] = "hpa_call"
    /\ LET r == detect_and_clear_hpa(env) IN
         /\ result' = [result EXCEPT
                ![o].hpa_detected = (r = "OkTrue"),
                ![o].hpa_cleared = (r = "OkTrue"),
                ![o].status = IF r = "OkTrue" THEN "ClearingHPA"
                              ELSE IF r = "Err" THEN "Failed" ELSE @]
         /\ Log(o, Event("hpa_done", 0, 0,
                    <<IF env.spawn_ok /\ env.status_ok /\ env.has_hpa THEN 1 ELSE 0,
                      IF r = "OkTrue" THEN 1 ELSE 0,
                      r>>))
         /\ SetPc(o, IF r = "Err" THEN "done" ELSE "dco_start")
    /\ Track(o)
    /\ UNCHANGED <<active_operations, cancelled, request, callerPc,
                   callRet, locals, late, progress, cancelRet, certVars, verifVars, libVars>>

\* wipe.rs:263-275
DetectHPAResult(o, env) ==
    /\ taskPc[o] = "hpa_call"
    /\ LET r == detect_and_clear_hpa(env) IN
         /\ result' = [result EXCEPT
                ![o].hpa_detected = (r = "OkTrue"),
                ![o].hpa_cleared = (r = "OkTrue"),
                ![o].status = IF r = "OkTrue" THEN "ClearingHPA" ELSE @]
         /\ Log(o, Event("hpa_done", 0, 0,
                    <<IF env.spawn_ok /\ env.status_ok /\ env.has_hpa THEN 1 ELSE 0,
                      IF r = "OkTrue" THEN 1 ELSE 0,
                      r>>))
    /\ SetPc(o, "dco_start")
    /\ Track(o)
    /\ UNCHANGED <<active_operations, cancelled, request, callerPc,
                 callRet, locals, late, progress, cancelRet, certVars, verifVars, libVars>>

\* wipe.rs:277-280: the DCO command is issued
DetectDCOStart(o) ==
    /\ taskPc[o] = "dco_start"
    /\ result' = [result EXCEPT ![o].status = "DetectingDCO"]
    /\ SetPc(o, "dco_call")
    /\ Log(o, Event("dco", 0, 0, <<>>))
    /\ Track(o)
    /\ UNCHANGED <<active_operations, cancelled, request, callerPc,
                 callRet, locals, late, progress, cancelRet, certVars, verifVars, libVars>>

\* platform/linux.rs:287-292: a placeholder that reports no DCO
detect_and_clear_dco == "OkFalse"

\* wipe.rs:280-292
DetectDCOResult(o) ==
    /\ taskPc[o] = "dco_call"
    /\ LET r == detect_and_clear_dco IN
         result' = [result EXCEPT
                ![o].dco_detected = (r = "OkTrue"),
                ![o].dco_cleared = (r = "OkTrue"),
                ![o].status = IF r = "OkTrue" THEN "ClearingDCO" ELSE @]
    /\ SetPc(o, "wipe_start")
    /\ Track(o)
    /\ UNCHANGED <<active_operations, cancelled, request, callerPc, callRet,
                 locals, trace, late, progress, cancelRet, certVars, verifVars, libVars>>

\* wipe.rs:295-299, and perform_wipe up to its dispatch (357-369)
WipeStart(o) ==
    /\ \/ taskPc[o] = "wipe_start"
       \/ taskPc[o] = "pre_wipe" /\ ~PreWipeWanted(o)
    /\ result' = [result EXCEPT ![o].status = "Wiping"]
    /\ SetPc(o, "dispatch")
    /\ Track(o)
    /\ UNCHANGED <<active_operations, cancelled, request, callerPc, callRet,
                 locals, trace, late, progress, cancelRet, certVars, verifVars, libVars>>

\* wipe.rs:307-313: perform_wipe returned Err(e)
WipeErr(o, msg) ==
    /\ result' = [result EXCEPT ![o].status = "Failed",
                                ![o].error_message = msg,
                                ![o].completed_at = TRUE,
                                ![o].duration = TRUE]
    /\ SetPc(o, "done")

\* wipe.rs:300-306: perform_wipe returned Ok(stats)
WipeOk(o, bytes, passes) ==
    /\ result' = [result EXCEPT ![o].bytes_wiped = bytes,
                                ![o].passes_completed = passes,
                                ![o].wipe_time = TRUE]
    /\ SetPc(o, "post_wipe")

\* a dispatch that does not look at prefer_hardware_erase
UseHardwareAnyPreference(o) == is_hardware_based(Alg(o))

\* wipe.rs:360
UseHardware(o) == Opt(o).prefer_hardware_erase /\ is_hardware_based(Alg(o))

\* wipe.rs:359-369
Dispatch(o) ==
    /\ taskPc[o] = "dispatch"
    /\ IF UseHardware(o)
       THEN /\ SetPc(o, "hw_issue")
            /\ UNCHANGED locals
       ELSE /\ SetPc(o, "pass_check")
            /\ locals' = [locals EXCEPT ![o] = [NoLocals EXCEPT !.pass_index = 1]]
    /\ UNCHANGED <<active_operations, cancelled, request, callerPc, callRet,
                 result, trace, late, statuses, progress, cancelRet, certVars, verifVars, libVars>>

\* wipe.rs:403-419: the hardware command goes out
HwIssue(o) ==
    /\ taskPc[o] = "hw_issue"
    /\ SetPc(o, "hw_wait")
    /\ Log(o, Event("hw", 0, 0, <<>>))
    /\ UNCHANGED <<active_operations, cancelled, request, callerPc, callRet,
                 result, locals, late, statuses, progress, cancelRet, certVars, verifVars, libVars>>

\* platform/linux.rs:169-221: how the external command ended
HwOutcomes == {"Ok", "System command failed", "Wipe operation failed"}

\* wipe.rs:410/414 with `?`, then 421-429
HwComplete(o, outcome) ==
    /\ taskPc[o] = "hw_wait"
    /\ IF outcome = "Ok"
       THEN WipeOk(o, Dev(o).size, 1)
       ELSE WipeErr(o, outcome)
    /\ Log(o, Event("hw_done", 0, 0, <<outcome>>))
    /\ Track(o)
    /\ UNCHANGED <<active_operations, cancelled, request, callerPc,
                 callRet, locals, late, progress, cancelRet, certVars, verifVars, libVars>>


(***************************************************************************)
(* WipeEngine::perform_wipe and wipe_with_pattern, the software loop       *)
(***************************************************************************)
CancelMsg == "Wipe operation was cancelled"

\* wipe.rs:372: the token is read at the head of every pass
PassSeesCancel(o) == cancelled[o]

\* a loop that looks at the token at pass boundaries only
BlockSeesCancelNever(o) == FALSE

\* wipe.rs:449: the token is read before every block
BlockSeesCancel(o) == cancelled[o]

\* wipe.rs:443, u64 division
TotalBlocks(size, block_size) == (size + block_size - 1) \div block_size

\* wipe.rs:371-380 and the head of wipe_with_pattern (439-446)
PassCheck(o) ==
    /\ taskPc[o] = "pass_check"
    /\ LET bs == Min(Opt(o).block_size, MaxBlockSize) IN
       IF locals[o].pass_index > Len(patterns(Alg(o)))
       THEN /\ SetPc(o, "flush")
            /\ UNCHANGED <<result, locals>>
       ELSE IF PassSeesCancel(o)
       THEN /\ WipeErr(o, CancelMsg)
            /\ UNCHANGED locals
       ELSE IF bs = 0
       THEN \* attempt to divide by zero
            /\ SetPc(o, "panicked")
            /\ UNCHANGED <<result, locals>>
       ELSE /\ SetPc(o, "block_check")
            /\ locals' = [locals EXCEPT ![o].block_size = bs,
                                        ![o].total_blocks = TotalBlocks(Dev(o).size, bs),
                                        ![o].block_index = 0,
                                        ![o].bytes_written = 0,
                                        ![o].previous_data = <<"None">>]
            /\ UNCHANGED result
    /\ Track(o)
    /\ UNCHANGED <<active_operations, cancelled, request, callerPc,
                 callRet, trace, late, progress, cancelRet, certVars, verifVars, libVars>>

\* wipe.rs:448-451, and 477 with 381-388 when the pass is over
BlockCheck(o) ==
    /\ taskPc[o] = "block_check"
    /\ IF locals[o].block_index >= locals[o].total_blocks
       THEN /\ SetPc(o, "pass_check")
            /\ locals' = [locals EXCEPT
                   ![o].bytes_wiped = @ + locals[o].bytes_written,
                   ![o].pass_index = @ + 1]
            /\ UNCHANGED result
       ELSE IF BlockSeesCancel(o)
       THEN /\ WipeErr(o, CancelMsg)
            /\ UNCHANGED locals
       ELSE /\ SetPc(o, "block_write")
            /\ UNCHANGED <<result, locals>>
    /\ Track(o)
    /\ UNCHANGED <<active_operations, cancelled, request, callerPc,
                 callRet, trace, late, progress, cancelRet, certVars, verifVars, libVars>>

\* wipe.rs:453-456
CurrentBlockSize(o) ==
    Min(locals[o].block_size, Dev(o).size - locals[o].bytes_written)

\* wipe.rs:463
StartLba(o) == locals[o].bytes_written \div Dev(o).logical_sector_size

\* wipe.rs:453-474: one block is generated and written
BlockWrite(o) ==
    /\ taskPc[o] = "block_write"
    /\ LET pat == patterns(Alg(o))[locals[o].pass_index]
           cur == CurrentBlockSize(o)
       IN IF generate_data_panics(pat, cur)
          THEN /\ SetPc(o, "panicked")
               /\ UNCHANGED <<locals, trace, late>>
          ELSE \E data \in generate_data(pat, cur, locals[o].previous_data) :
               /\ Log(o, Event("write", locals[o].pass_index, StartLba(o), data))
               /\ locals' = [locals EXCEPT
                      ![o].bytes_written = @ + cur,
                      ![o].previous_data = <<"Some", data>>,
                      ![o].block_index = @ + 1]
               /\ late' = [late EXCEPT
                      ![o].cancel = IF cancelled[o] THEN Min(@ + 1, WriteCountCap) ELSE @,
                      ![o].timeout = IF callRet[o] = "Timeout"
                                     THEN Min(@ + 1, WriteCountCap) ELSE @]
               /\ SetPc(o, "block_check")
    /\ UNCHANGED <<active_operations, cancelled, request, callerPc,
                 callRet, result, statuses, progress, cancelRet, certVars, verifVars, libVars>>

\* platform/linux.rs:246-258: hdparm -f; a failed exit status is a warning,
\* a command that cannot be spawned is an error
FlushEnvs == {"Success", "ExitFailure", "SpawnError"}

flush_cache(env) == IF env = "SpawnError" THEN "Err" ELSE "Ok"

\* wipe.rs:391-399
Flush(o, env) ==
    /\ taskPc[o] = "flush"
    /\ Log(o, Event("flush", locals[o].pass_index - 1, 0, <<flush_cache(env)>>))
    /\ IF flush_cache(env) = "Ok"
       THEN WipeOk(o, locals[o].bytes_wiped, Len(patterns(Alg(o))))
       ELSE WipeErr(o, "System command failed")
    /\ Track(o)
    /\ UNCHANGED <<active_operations, cancelled, request, callerPc,
                 callRet, locals, late, progress, cancelRet, certVars, verifVars, libVars>>

(***************************************************************************)
(* verification step and the end of execute_wipe_operation                 *)
(***************************************************************************)
\* wipe.rs:316-321
PostWipe(o) ==
    /\ taskPc[o] = "post_wipe"
    /\ IF Opt(o).verify_wipe
       THEN /\ result' = [result EXCEPT ![o].status = "Verifying"]
            /\ SetPc(o, "verify_call")
       ELSE /\ SetPc(o, "finalize")
            /\ UNCHANGED result
    /\ Track(o)
    /\ UNCHANGED <<active_operations, cancelled, request, callerPc, callRet,
                 locals, trace, late, progress, cancelRet, certVars, verifVars, libVars>>

\* wipe.rs:481-506: min(verification_samples, 1000) samples are read through
\* the platform port (the read at line 495, a placeholder in the source) and
\* judged by is_data_wiped; the first sample that does not look wiped ends
\* the loop with Ok(false), a failed read ends it with Err.
\* env = whether the reads succeed and whether every sample looks wiped.
VerifyEnvs == [read_ok : BOOLEAN, samples_wiped : BOOLEAN]

verify_wipe(opt, env) ==
    IF Min(opt.verification_samples, MaxVerifySamples) = 0 THEN "OkTrue"
    ELSE IF ~env.read_ok THEN "Err"
    ELSE IF ~env.samples_wiped THEN "OkFalse"
    ELSE "OkTrue"

\* wipe.rs:321-335
VerifyResult(o, env) ==
    /\ taskPc[o] = "verify_call"
    /\ LET r == verify_wipe(Opt(o), env) IN
         /\ result' = [result EXCEPT
                ![o].verification_passed = IF r = "OkTrue" THEN "SomeTrue" ELSE "SomeFalse",
                ![o].verification_time = TRUE,
                ![o].status = IF r = "OkFalse" THEN "Failed" ELSE @,
                ![o].error_message = IF r = "OkFalse" THEN "Wipe verification failed" ELSE @]
         /\ Log(o, Event("verify", 0, 0, <<r>>))
    /\ SetPc(o, "finalize")
    /\ Track(o)
    /\ UNCHANGED <<active_operations, cancelled, request, callerPc,
                 callRet, locals, late, progress, cancelRet, certVars, verifVars, libVars>>

\* a final step that overwrites whatever status it finds
FinalStatusOverwrite(status) == "Completed"

\* wipe.rs:339-341
FinalStatus(status) == IF status = "Wiping" THEN "Completed" ELSE status

\* wipe.rs:338-347
Finalize(o) ==
    /\ taskPc[o] = "finalize"
    /\ result' = [result EXCEPT ![o].status = FinalStatus(@),
                                ![o].completed_at = TRUE,
                                ![o].duration = TRUE,
                                ![o].total_time = TRUE]
    /\ SetPc(o, "done")
    /\ Track(o)
    /\ UNCHANGED <<active_operations, cancelled, request, callerPc, callRet,
                 locals, trace, late, progress, cancelRet, certVars, verifVars, libVars>>

(***************************************************************************)
(* The engine with one caller                                              *)
(***************************************************************************)
Next ==
    \/ \E o \in SoloOps :
          /\ callerPc[o] = "idle"
          /\ \E d \in Devices, a \in Algorithms, opt \in OptionSet :
                WipeDeviceStart(o, d, a, opt)
    \/ \E o \in SoloOps : WipeDeviceReturn(o)
    \/ \E o \in SoloOps : WipeDeviceTimeout(o)
    \/ \E o \in SoloOps : WipeDeviceJoinError(o)
    \/ \E o \in SoloOps : o \in IssuedIds /\ CancelOperation(o)
    \/ \E o \in SoloOps : TaskBegin(o)
    \/ \E o \in SoloOps : DetectHPAStart(o)
    \/ \E o \in SoloOps, env \in HpaEnvs : DetectHPAResult(o, env)
    \/ \E o \in SoloOps : DetectDCOStart(o)
    \/ \E o \in SoloOps : DetectDCOResult(o)
    \/ \E o \in SoloOps : WipeStart(o)
    \/ \E o \in SoloOps : Dispatch(o)
    \/ \E o \in SoloOps : HwIssue(o)
    \/ \E o \in SoloOps, outcome \in HwOutcomes : HwComplete(o, outcome)
    \/ \E o \in SoloOps : PassCheck(o)
    \/ \E o \in SoloOps : BlockCheck(o)
    \/ \E o \in SoloOps : BlockWrite(o)
    \/ \E o \in SoloOps, env \in FlushEnvs : Flush(o, env)
    \/ \E o \in SoloOps : PostWipe(o)
    \/ \E o \in SoloOps, env \in VerifyEnvs : VerifyResult(o, env)
    \/ \E o \in SoloOps : Finalize(o)

Spec == Init /\ [][Next]_vars

(***************************************************************************)
(* The engine shared by two callers (wipe_device takes &self and is called *)
(* from lib.rs:74-89), each starting one wipe, with clients cancelling     *)
(***************************************************************************)
Request(d, a, opt) == [device |-> d, algorithm |-> a, options |-> opt]

Options(verify, clear, bs, timeout, hw) ==
    [verify_wipe |-> verify, verification_samples |-> 1, clear_hpa_dco |-> clear,
     block_size |-> bs, operation_timeout |-> timeout, prefer_hardware_erase |-> hw]

\* what the first caller may ask for: a software wipe with every optional
\* step and a timeout, a hardware erase, and a wipe whose block_size makes the
\* task panic
ConcRequests ==
    {Request(Disk("/dev/sdb", 1, FALSE, TRUE, FALSE), ZeroFill,
             Options(TRUE, TRUE, 1, "Some", FALSE)),
     Request(Disk("/dev/sdc", 1, FALSE, FALSE, FALSE), ATASecureErase,
             Options(FALSE, FALSE, 1, "None", TRUE)),
     Request(Disk("/dev/sdc", 1, FALSE, FALSE, FALSE), ZeroFill,
             Options(FALSE, FALSE, 0, "None", FALSE))}

\* the second caller asks for a plain one-pass software wipe
PlainRequest ==
    Request(Disk("/dev/sdc", 1, FALSE, FALSE, FALSE), ZeroFill,
            Options(FALSE, FALSE, 1, "None", FALSE))

RequestsOf(o) == IF o \in SoloOps THEN ConcRequests ELSE {PlainRequest}

NextConc ==
    \/ \E o \in Ops :
          /\ callerPc[o] = "idle"
          /\ \E r \in RequestsOf(o) :
                WipeDeviceStart(o, r.device, r.algorithm, r.options)
    \/ \E o \in Ops : WipeDeviceReturn(o)
    \/ \E o \in Ops : WipeDeviceTimeout(o)
    \/ \E o \in Ops : WipeDeviceJoinError(o)
    \/ \E o \in Ops : o \in IssuedIds /\ CancelOperation(o)
    \/ \E o \in Ops : TaskBegin(o)
    \/ \E o \in Ops : DetectHPAStart(o)
    \/ \E o \in Ops, env \in HpaEnvs : DetectHPAResult(o, env)
    \/ \E o \in Ops : DetectDCOStart(o)
    \/ \E o \in Ops : DetectDCOResult(o)
    \/ \E o \in Ops : WipeStart(o)
    \/ \E o \in Ops : Dispatch(o)
    \/ \E o \in Ops : HwIssue(o)
    \/ \E o \in Ops, outcome \in HwOutcomes : HwComplete(o, outcome)
    \/ \E o \in Ops : PassCheck(o)
    \/ \E o \in Ops : BlockCheck(o)
    \/ \E o \in Ops : BlockWrite(o)
    \/ \E o \in Ops, env \in FlushEnvs : Flush(o, env)
    \/ \E o \in Ops : PostWipe(o)
    \/ \E o \in Ops, env \in VerifyEnvs : VerifyResult(o, env)
    \/ \E o \in Ops : Finalize(o)

SpecConc == Init /\ [][NextConc]_vars


(***************************************************************************)
(* certificate-gen/src/certificate.rs: WipeCertificate, SignedCertificate  *)
(***************************************************************************)
Times == 0..MaxTime

\* Option<T>: <<>> is None, <<x>> is Some(x)
None == <<>>
Some(x) == <<x>>

\* VerificationInfo: the counts, and success_rate in percent
VerificationInfos ==
    {[samples_tested |-> 2, samples_passed |-> 2, success_rate |-> 100],
     [samples_tested |-> 2, samples_passed |-> 1, success_rate |-> 50],
     [samples_tested |-> 1, samples_passed |-> 2, success_rate |-> 100],
     [samples_tested |-> 2, samples_passed |-> 1, success_rate |-> 100],
     [samples_tested |-> 0, samples_passed |-> 0, success_rate |-> 50]}

\* a HashMap<String, String> (metadata; technical_details is a HashMap
\* too), held as its keys in the order the map iterates them; that order
\* depends on the RandomState the map was created with
Metadatas == {<<>>, <<"asset">>, <<"asset", "site">>, <<"site", "asset">>}

\* CertificateData, the fields validate, sign and verify read
CertificateDatas ==
    [certificate_id_nil : BOOLEAN,
     generated_at : Times,
     serial : {"", "TEST123"},
     model : {"", "Test Drive"},
     started_at : {1},
     completed_at : {None} \cup {Some(t) : t \in Times},
     verification_info : {None} \cup {Some(v) : v \in VerificationInfos},
     metadata : Metadatas]

\* WipeCertificate::new
WipeCertificateNew(data) == [data |-> data, version |-> "0.1.0", format_version |-> 1]

\* certificate.rs:186-187: calculated_rate is NaN for samples_tested = 0, and
\* no comparison with NaN is true
RateMismatch(v) ==
    IF v.samples_tested = 0 THEN FALSE
    ELSE LET diff == v.samples_passed * 100 - v.success_rate * v.samples_tested IN
         (IF diff < 0 THEN -diff ELSE diff) > v.samples_tested

\* WipeCertificate::validate: "Ok" or the error it returns
validate(c) ==
    IF c.data.certificate_id_nil THEN "InvalidCertificateData"
    ELSE IF c.data.serial = "" THEN "MissingRequiredField"
    ELSE IF c.data.model = "" THEN "MissingRequiredField"
    ELSE IF c.data.completed_at # None /\ c.data.completed_at[1] < c.data.started_at
         THEN "InvalidTimestamp"
    ELSE IF c.data.verification_info # None
            /\ c.data.verification_info[1].samples_passed
                  > c.data.verification_info[1].samples_tested
         THEN "InvalidCertificateData"
    ELSE IF c.data.verification_info # None /\ RateMismatch(c.data.verification_info[1])
         THEN "InvalidCertificateData"
    ELSE "Ok"

\* SignedCertificate::validate
validate_signed(sc) ==
    IF validate(sc.certificate) # "Ok" THEN validate(sc.certificate)
    ELSE IF sc.signed_at < sc.certificate.data.generated_at THEN "InvalidTimestamp"
    ELSE "Ok"

\* the certificates the callers build: at most one field is off the
\* values of the crate's test certificate
Defects(d) ==
    (IF d.certificate_id_nil THEN 1 ELSE 0) + (IF d.serial = "" THEN 1 ELSE 0)
      + (IF d.model = "" THEN 1 ELSE 0)
      + (IF d.completed_at # Some(1) THEN 1 ELSE 0)
      + (IF d.verification_info # None THEN 1 ELSE 0)
      + (IF d.metadata # <<>> THEN 1 ELSE 0)

Certificates == {WipeCertificateNew(d) : d \in {x \in CertificateDatas : Defects(x) <= 1}}

(***************************************************************************)
(* certificate-gen/src/crypto.rs: CertificateSigner, CertificateVerifier   *)
(***************************************************************************)
\* RSA key pairs: private key k and public key k belong together
Keys == {1, 2}

\* hex(sha256(der(public_key))[..8])
generate_key_id(public_key) == <<"sha256-8", public_key>>

\* serde_json::to_string of a value held in memory
to_string(c) == <<"json", c>>

\* hex(sha256(bytes))
Sha256Hex(bytes) == <<"sha256", bytes>>

\* Signer::sign_to_vec, then base64::encode_block
create_signature(private_key, data) ==
    <<"base64", [key |-> private_key, data |-> data]>>

\* a signature check that looks at the key only
verify_signature_key_only(data, signature, public_key) ==
    IF signature[2].key = public_key THEN "OkTrue" ELSE "OkFalse"

\* base64::decode_block, then Verifier::verify
verify_signature(data, signature, public_key) ==
    IF signature[2].key = public_key /\ signature[2].data = data
    THEN "OkTrue" ELSE "OkFalse"

\* the wall clock moves on
Tick ==
    /\ clock < MaxTime
    /\ clock' = clock + 1
    /\ UNCHANGED <<signer, trusted_keys, certificate, signed_certificate,
                   received_certificate, verifyRet, engineVars, verifVars, libVars>>

\* CertificateSigner::new: a freshly generated pair
SignerNew(k) ==
    /\ signer = NoSigner
    /\ signer' = [private_key |-> k, public_key |-> k, key_id |-> generate_key_id(k)]
    /\ UNCHANGED <<clock, trusted_keys, certificate, signed_certificate,
                   received_certificate, verifyRet, engineVars, verifVars, libVars>>

\* CertificateSigner::from_files: the two files are read independently
SignerFromFiles(private_key, public_key) ==
    /\ signer = NoSigner
    /\ signer' = [private_key |-> private_key, public_key |-> public_key,
                  key_id |-> generate_key_id(public_key)]
    /\ UNCHANGED <<clock, trusted_keys, certificate, signed_certificate,
                   received_certificate, verifyRet, engineVars, verifVars, libVars>>

\* CertificateVerifier::add_trusted_key, called as load_trusted_keys and the
\* crate's test call it: the key under its own key id
AddTrustedKey(public_key) ==
    /\ [key_id |-> generate_key_id(public_key), key |-> public_key] \notin trusted_keys
    /\ trusted_keys' =
          {e \in trusted_keys : e.key_id # generate_key_id(public_key)}
            \cup {[key_id |-> generate_key_id(public_key), key |-> public_key]}
    /\ UNCHANGED <<clock, signer, certificate, signed_certificate,
                   received_certificate, verifyRet, engineVars, verifVars, libVars>>

\* a caller builds the certificate it will have signed
BuildCertificate(c) ==
    /\ certificate = NoCertificate
    /\ certificate' = c
    /\ UNCHANGED <<clock, signer, trusted_keys, signed_certificate,
                   received_certificate, verifyRet, engineVars, verifVars, libVars>>

\* CertificateSigner::sign_certificate
SignCertificate ==
    /\ signer # NoSigner
    /\ certificate # NoCertificate
    /\ signed_certificate = NotSigned
    /\ signed_certificate' =
          IF validate(certificate) # "Ok" THEN [err |-> validate(certificate)]
          ELSE [certificate |-> certificate,
                signature_info |->
                    [signature |-> create_signature(signer.private_key,
                                                    to_string(certificate)),
                     algorithm |-> "RSA2048SHA256",
                     key_id |-> signer.key_id,
                     timestamp |-> clock,
                     certificate_hash |-> Sha256Hex(to_string(certificate)),
                     signature_version |-> 1],
                signed_at |-> clock]
    /\ UNCHANGED <<clock, signer, trusted_keys, certificate, received_certificate,
                   verifyRet, engineVars, verifVars, libVars>>

\* sign_certificate returned Ok(envelope)
IsEnvelope(sc) == "signed_at" \in DOMAIN sc

\* verify_certificate with the hash compared before the key is looked up
verify_certificate_hash_first(keys, sc) ==
    IF validate_signed(sc) # "Ok" THEN validate_signed(sc)
    ELSE IF Sha256Hex(to_string(sc.certificate)) # sc.signature_info.certificate_hash
         THEN "OkFalse"
    ELSE IF \A e \in keys : e.key_id # sc.signature_info.key_id
         THEN "SignatureVerificationFailed"
    ELSE LET e == CHOOSE e \in keys : e.key_id = sc.signature_info.key_id IN
         verify_signature(to_string(sc.certificate), sc.signature_info.signature, e.key)

\* CertificateVerifier::verify_certificate
verify_certificate(keys, sc) ==
    IF validate_signed(sc) # "Ok" THEN validate_signed(sc)
    ELSE IF \A e \in keys : e.key_id # sc.signature_info.key_id
         THEN "SignatureVerificationFailed"
    ELSE IF Sha256Hex(to_string(sc.certificate)) # sc.signature_info.certificate_hash
         THEN "OkFalse"
    ELSE LET e == CHOOSE e \in keys : e.key_id = sc.signature_info.key_id IN
         verify_signature(to_string(sc.certificate), sc.signature_info.signature, e.key)

\* the verifier is handed the envelope as sign_certificate returned it
\* (crypto.rs:401-408)
Deliver ==
    /\ IsEnvelope(signed_certificate)
    /\ received_certificate = NotSigned
    /\ received_certificate' = signed_certificate
    /\ UNCHANGED <<clock, signer, trusted_keys, certificate, signed_certificate,
                   verifyRet, engineVars, verifVars, libVars>>

\* the same keys in every order a HashMap may iterate them
Orders(keys) ==
    {q \in [1..Len(keys) -> {keys[i] : i \in 1..Len(keys)}] :
        \A i, j \in 1..Len(keys) : i # j => q[i] # q[j]}

\* serde_json::from_str of a serialized envelope: every field as written,
\* each HashMap rebuilt under a fresh RandomState
from_str(sc) ==
    {[sc EXCEPT !.certificate.data.metadata = q] :
        q \in Orders(sc.certificate.data.metadata)}

\* verify_certificate_file, crypto.rs:339-344: the stored envelope is read
\* and parsed
LoadFromFile ==
    /\ IsEnvelope(signed_certificate)
    /\ received_certificate = NotSigned
    /\ received_certificate' \in from_str(signed_certificate)
    /\ UNCHANGED <<clock, signer, trusted_keys, certificate, signed_certificate,
                   verifyRet, engineVars, verifVars, libVars>>

\* two certificates with the same content (maps compared as maps)
SameCertificate(a, b) ==
    /\ [a EXCEPT !.data.metadata = <<>>] = [b EXCEPT !.data.metadata = <<>>]
    /\ a.data.metadata \in Orders(b.data.metadata)

\* the envelope in the verifier's hands no longer carries the certificate
\* that was signed
Tampered ==
    /\ IsEnvelope(received_certificate)
    /\ ~SameCertificate(received_certificate.certificate, signed_certificate.certificate)

\* what somebody holding the envelope may change in the inner certificate:
\* one byte of the serial, a timestamp, a sample count
Tamperings(c) ==
    {[c EXCEPT !.data.serial = "XEST123"]}
      \cup {[c EXCEPT !.data.generated_at = t] : t \in Times}
      \cup {[c EXCEPT !.data.completed_at = Some(t)] : t \in Times}
      \cup {[c EXCEPT !.data.verification_info =
                          Some([samples_tested |-> 2, samples_passed |-> 2,
                                success_rate |-> 100])]}

\* the inner certificate is changed after signing (the fields are pub); the
\* unkeyed certificate_hash may be recomputed to match
Tamper(c, fix_hash) ==
    /\ IsEnvelope(received_certificate)
    /\ verifyRet = "None"
    /\ ~Tampered
    /\ c \in Tamperings(received_certificate.certificate)
    /\ c # received_certificate.certificate
    /\ received_certificate' =
          [received_certificate EXCEPT
              !.certificate = c,
              !.signature_info.certificate_hash =
                  IF fix_hash THEN Sha256Hex(to_string(c)) ELSE @]
    /\ UNCHANGED <<clock, signer, trusted_keys, certificate, signed_certificate,
                   verifyRet, engineVars, verifVars, libVars>>

VerifyCertificate ==
    /\ IsEnvelope(received_certificate)
    /\ verifyRet = "None"
    /\ verifyRet' = verify_certificate(trusted_keys, received_certificate)
    /\ UNCHANGED <<clock, signer, trusted_keys, certificate, signed_certificate,
                   received_certificate, engineVars, verifVars, libVars>>

NextCert ==
    \/ Tick
    \/ \E k \in Keys : SignerNew(k)
    \/ \E private_key, public_key \in Keys : SignerFromFiles(private_key, public_key)
    \/ \E k \in Keys : AddTrustedKey(k)
    \/ \E c \in Certificates : BuildCertificate(c)
    \/ SignCertificate
    \/ Deliver
    \/ LoadFromFile
    \/ \E fix_hash \in BOOLEAN :
          /\ IsEnvelope(received_certificate)
          /\ \E c \in Tamperings(received_certificate.certificate) : Tamper(c, fix_hash)
    \/ VerifyCertificate

SpecCert == Init /\ [][NextCert]_vars

(***************************************************************************)
(* core-engine verification (verification.rs): the analysis of one sample  *)
(***************************************************************************)
\* verification.rs:120  entropy_threshold: 7.5 bits, in 1/1024 bit
entropy_threshold == 7680
\* verification.rs:121
pattern_detection_threshold == 16

RECURSIVE Log2Floor(_)
Log2Floor(x) == IF x < 2 THEN 0 ELSE 1 + Log2Floor(x \div 2)

RECURSIVE Pow2(_)
Pow2(k) == IF k = 0 THEN 1 ELSE 2 * Pow2(k - 1)

\* the fraction bits of log2 of m / 4096, for 4096 <= m < 8192, by squaring
RECURSIVE Log2Frac(_, _)
Log2Frac(m, bits) ==
    IF bits = 0 THEN 0
    ELSE LET sq == (m * m) \div 4096 IN
         IF sq >= 8192 THEN Pow2(bits - 1) + Log2Frac(sq \div 2, bits - 1)
         ELSE Log2Frac(sq, bits - 1)

\* f64::log2 of a count, in 1/1024 bit (rounded down, ten fraction bits)
Log2(x) ==
    Log2Floor(x) * 1024 + Log2Frac((x * 4096) \div Pow2(Log2Floor(x)), 10)

\* calculate_entropy, verification.rs:412-429: counts[byte]
ByteCount(data, b) == Cardinality({i \in 1..Len(data) : data[i] = b})

\* the sum over counts[lo..hi] of count * (log2(len) - log2(count)), the
\* range halved at each step
RECURSIVE EntropySum(_, _, _)
EntropySum(data, lo, hi) ==
    IF lo = hi
    THEN LET count == ByteCount(data, lo) IN
         IF count > 0 THEN count * (Log2(Len(data)) - Log2(count)) ELSE 0
    ELSE EntropySum(data, lo, (lo + hi) \div 2)
           + EntropySum(data, ((lo + hi) \div 2) + 1, hi)

\* Shannon entropy -sum p * log2(p) of the byte histogram, in 1/1024 bit
calculate_entropy(data) ==
    IF Len(data) = 0 THEN 0 ELSE EntropySum(data, 0, ByteMod - 1) \div Len(data)

\* the chunks_exact(pattern_len) chunks equal to the first pattern_len bytes
ChunkMatches(data, pattern_len) ==
    Cardinality({c \in 0..((Len(data) \div pattern_len) - 1) :
                    \A j \in 1..pattern_len : data[c * pattern_len + j] = data[j]})

\* has_repeating_pattern, verification.rs:461-483
has_repeating_pattern(data) ==
    IF Len(data) < pattern_detection_threshold THEN FALSE
    ELSE \E pattern_len \in 1..Min(Len(data) \div 4, 64) :
            ChunkMatches(data, pattern_len) > (Len(data) \div pattern_len) \div 2

\* verification.rs:488-497: "NTFS", "FAT32", "ext2", "ext3", "ext4", "HFS+",
\* "APFS" and the boot signature 0x55 0xAA
signatures ==
    {<<78, 84, 70, 83>>, <<70, 65, 84, 51, 50>>, <<101, 120, 116, 50>>,
     <<101, 120, 116, 51>>, <<101, 120, 116, 52>>, <<72, 70, 83, 43>>,
     <<65, 80, 70, 83>>, <<85, 170>>}

\* data.windows(len).any(|window| window == signature)
Contains(data, signature) ==
    \E i \in 1..(Len(data) - Len(signature) + 1) :
        \A j \in 1..Len(signature) : data[i + j - 1] = signature[j]

\* has_structured_data, verification.rs:486-506
has_structured_data(data) == \E signature \in signatures : Contains(data, signature)

\* detect_pattern_type with the signature check ahead of the other rules
detect_pattern_type_signature_first(data) ==
    IF has_structured_data(data) THEN "Suspicious"
    ELSE IF \A i \in 1..Len(data) : data[i] = 0 THEN "AllZeros"
    ELSE IF \A i \in 1..Len(data) : data[i] = ByteMod - 1 THEN "AllOnes"
    ELSE IF has_repeating_pattern(data) THEN "Repeating"
    ELSE IF calculate_entropy(data) > entropy_threshold THEN "Random"
    ELSE "Structured"

\* detect_pattern_type, verification.rs:432-458
detect_pattern_type(data) ==
    IF \A i \in 1..Len(data) : data[i] = 0 THEN "AllZeros"
    ELSE IF \A i \in 1..Len(data) : data[i] = ByteMod - 1 THEN "AllOnes"
    ELSE IF has_repeating_pattern(data) THEN "Repeating"
    ELSE IF calculate_entropy(data) > entropy_threshold THEN "Random"
    ELSE IF has_structured_data(data) THEN "Suspicious"
    ELSE "Structured"

\* data.windows(16) that are all zero
null_sequences(data) ==
    Cardinality({i \in 1..(Len(data) - 15) : \A j \in 0..15 : data[i + j] = 0})

\* detect_anomalies, verification.rs:523-544
detect_anomalies(data, pattern_type, entropy) ==
    (IF pattern_type = "Suspicious"
        THEN {"Suspicious structured data detected"}
     ELSE IF pattern_type = "Random" /\ entropy < entropy_threshold
        THEN {"Low entropy in supposedly random data"}
     ELSE {})
    \cup (IF null_sequences(data) > Len(data) \div 32 /\ pattern_type # "AllZeros"
          THEN {"Unexpected null byte sequences"} ELSE {})

\* analyze_sector, verification.rs:383-409: the fields the engine reads
analyze_sector(data) ==
    LET entropy == calculate_entropy(data)
        pattern_type == detect_pattern_type(data)
    IN [entropy |-> entropy,
        pattern_type |-> pattern_type,
        anomalies |-> detect_anomalies(data, pattern_type, entropy)]

\* is_sample_acceptable without the check for anomalies
is_sample_acceptable_by_type(analysis, algorithm) ==
    CASE algorithm.name = "ZeroFill" -> analysis.pattern_type = "AllZeros"
      [] algorithm.name = "OneFill" -> analysis.pattern_type = "AllOnes"
      [] algorithm.name \in {"Random", "NIST80088"} ->
            analysis.pattern_type = "Random" /\ analysis.entropy > entropy_threshold
      [] OTHER -> analysis.pattern_type # "Suspicious"

\* is_sample_acceptable, verification.rs:547-571
is_sample_acceptable(analysis, algorithm) ==
    IF analysis.anomalies # {} THEN FALSE
    ELSE CASE algorithm.name = "ZeroFill" -> analysis.pattern_type = "AllZeros"
           [] algorithm.name = "OneFill" -> analysis.pattern_type = "AllOnes"
           [] algorithm.name \in {"Random", "NIST80088"} ->
                 analysis.pattern_type = "Random"
                   /\ analysis.entropy > entropy_threshold
           [] OTHER -> analysis.pattern_type # "Suspicious"

\* the model's sample length; the engine reads 4096-byte samples
\* (verification.rs:311)
SampleSize == 256

\* the sample buffers the model analyses
SampleKinds ==
    {"zeros", "ones", "alternating", "ramp", "ramp_boot", "low_boot", "low_plain",
     "ntfs_repeated", "nul_tail", "nul_run_random", "test_zeros", "test_ones",
     "test_repeating", "short"}

SampleData(kind) ==
    CASE kind = "zeros" -> Fill(0, SampleSize)
      [] kind = "ones" -> Fill(ByteMod - 1, SampleSize)
      [] kind = "alternating" ->
            [i \in 1..SampleSize |-> IF i % 2 = 1 THEN 170 ELSE 187]
      \* every byte value in turn
      [] kind = "ramp" -> [i \in 1..SampleSize |-> (i - 1) % ByteMod]
      \* the same with 0x56 and 0xAA exchanged: 0x55 0xAA at offset 85
      [] kind = "ramp_boot" ->
            [i \in 1..SampleSize |->
                IF i = 87 THEN 170 ELSE IF i = 171 THEN 86 ELSE (i - 1) % ByteMod]
      \* a boot signature followed by bytes 1..8 in turn
      [] kind = "low_boot" ->
            [i \in 1..SampleSize |->
                IF i = 1 THEN 85 ELSE IF i = 2 THEN 170 ELSE 1 + (i % 8)]
      [] kind = "low_plain" ->
            [i \in 1..SampleSize |-> IF i = 1 THEN 153 ELSE 1 + (i % 8)]
      [] kind = "ntfs_repeated" ->
            [i \in 1..SampleSize |-> <<78, 84, 70, 83>>[((i - 1) % 4) + 1]]
      \* zeros but for the last byte
      [] kind = "nul_tail" ->
            [i \in 1..SampleSize |-> IF i = SampleSize THEN 1 ELSE 0]
      \* 24 zeros, then distinct bytes
      [] kind = "nul_run_random" ->
            [i \in 1..SampleSize |-> IF i <= 24 THEN 0 ELSE (i - 24) % ByteMod]
      \* the vectors of test_pattern_detection, verification.rs:753-765
      [] kind = "test_zeros" -> Fill(0, 100)
      [] kind = "test_ones" -> Fill(ByteMod - 1, 100)
      [] kind = "test_repeating" -> [i \in 1..100 |-> IF i % 2 = 1 THEN 170 ELSE 187]
      \* shorter than pattern_detection_threshold
      [] kind = "short" -> Fill(1, 8)

\* analyze_sector of every sample of the model
Analyses == [kind \in SampleKinds |-> analyze_sector(SampleData(kind))]

\* the algorithms a verified wipe may have run
VerifiedAlgorithms ==
    {ZeroFill, OneFill, RandomAlg, NIST80088, DoD522022M, Gutmann, ATASecureErase,
     Custom(<<Zeros, Complement>>)}

NoAnalysis == [pattern_type |-> "none"]

\* a sample and the algorithm of the wipe are handed to the engine
TakeSample(kind, algorithm) ==
    /\ sample = "none"
    /\ sample' = kind
    /\ sample_algorithm' = algorithm
    /\ UNCHANGED <<sample_analysis, acceptable, verification, buffers, sector_analyses,
                   samples_passed, verification_result, engineVars, certVars, libVars>>

\* analyze_sector on the sample
AnalyzeSector ==
    /\ sample # "none"
    /\ sample_analysis = NoAnalysis
    /\ sample_analysis' = Analyses[sample]
    /\ UNCHANGED <<sample, sample_algorithm, acceptable, verification, buffers,
                   sector_analyses, samples_passed, verification_result,
                   engineVars, certVars, libVars>>

\* is_sample_acceptable on the analysis
IsSampleAcceptable ==
    /\ sample_analysis # NoAnalysis
    /\ acceptable = <<>>
    /\ acceptable' = <<is_sample_acceptable(sample_analysis, sample_algorithm)>>
    /\ UNCHANGED <<sample, sample_algorithm, sample_analysis, verification, buffers,
                   sector_analyses, samples_passed, verification_result,
                   engineVars, certVars, libVars>>

NextSample ==
    \/ \E kind \in SampleKinds, algorithm \in VerifiedAlgorithms :
          TakeSample(kind, algorithm)
    \/ AnalyzeSector
    \/ IsSampleAcceptable

SpecSample == Init /\ [][NextSample]_vars

(***************************************************************************)
(* perform_verification: the samples of one verification and its result    *)
(***************************************************************************)
\* the largest sample_count of the model; calculate_sampling_parameters
\* (verification.rs:309-327) yields 100 to 10000
MaxSampleCount == 20

SampleCounts == {MaxSampleCount - 1, MaxSampleCount}

VerificationTypes == {"Quick", "Standard", "Comprehensive", "Custom"}

\* generate_sample_locations with both shares of a Comprehensive run rounded
\* down
generate_sample_locations_rounded(sample_count, verification_type) ==
    IF verification_type = "Comprehensive"
    THEN (sample_count * 3) \div 4 + sample_count \div 4
    ELSE sample_count

\* generate_sample_locations, verification.rs:330-380: the number of
\* locations it returns
generate_sample_locations(sample_count, verification_type) ==
    IF verification_type = "Comprehensive"
    THEN LET systematic_count == (sample_count * 3) \div 4
             random_count == sample_count - systematic_count
         IN systematic_count + random_count
    ELSE sample_count

\* verification.rs:239-256: the buffer is zeros after ZeroFill, 0xFF after
\* OneFill and rng bytes otherwise; of the rng's outcomes the model reads a
\* high-entropy buffer, one with a boot signature, a structured one and a
\* high-entropy one with a run of zeros
ReadKinds(algorithm) ==
    CASE algorithm.name = "ZeroFill" -> <<"zeros">>
      [] algorithm.name = "OneFill" -> <<"ones">>
      [] OTHER -> <<"ramp", "low_boot", "low_plain", "nul_run_random">>

NoVerification == [sample_count |-> 0]
NoVerificationResult == [overall_result |-> "none"]

\* perform_verification up to the loop, verification.rs:213-233
PerformVerification(algorithm, verification_type, sample_count) ==
    /\ verification = NoVerification
    /\ verification' =
          [algorithm |-> algorithm, verification_type |-> verification_type,
           sample_count |-> sample_count,
           sample_locations |->
               generate_sample_locations(sample_count, verification_type)]
    /\ UNCHANGED <<sample, sample_algorithm, sample_analysis, acceptable, buffers,
                   sector_analyses, samples_passed, verification_result,
                   engineVars, certVars, libVars>>

\* one turn of the loop, verification.rs:235-273; the rng's buffers are read
\* in the order of ReadKinds (no aggregate depends on the order)
AnalyzeSample(k) ==
    /\ verification # NoVerification
    /\ Len(sector_analyses) < verification.sample_locations
    /\ k \in 1..Len(ReadKinds(verification.algorithm))
    /\ buffers # <<>> => buffers[Len(buffers)] <= k
    /\ LET a == Analyses[ReadKinds(verification.algorithm)[k]] IN
       /\ buffers' = Append(buffers, k)
       /\ sector_analyses' = Append(sector_analyses, a)
       /\ samples_passed' =
             IF is_sample_acceptable(a, verification.algorithm)
             THEN samples_passed + 1 ELSE samples_passed
    /\ UNCHANGED <<sample, sample_algorithm, sample_analysis, acceptable, verification,
                   verification_result, engineVars, certVars, libVars>>

\* analyze_patterns, verification.rs:603-636: the counts and the suspicious
\* sectors (by position in the list of samples)
analyze_patterns(analyses) ==
    [zero_sectors |->
        Cardinality({i \in 1..Len(analyses) : analyses[i].pattern_type = "AllZeros"}),
     one_sectors |->
        Cardinality({i \in 1..Len(analyses) : analyses[i].pattern_type = "AllOnes"}),
     random_sectors |->
        Cardinality({i \in 1..Len(analyses) : analyses[i].pattern_type = "Random"}),
     suspicious_sectors |->
        {i \in 1..Len(analyses) : analyses[i].pattern_type = "Suspicious"}]

\* determine_overall_result that goes by the success rate alone
determine_overall_result_by_rate(success_rate, pattern_analysis) ==
    IF success_rate.num * 100 >= 95 * success_rate.den THEN "Passed"
    ELSE IF success_rate.num * 100 >= 85 * success_rate.den THEN "Warning"
    ELSE IF success_rate.num * 100 >= 70 * success_rate.den THEN "Inconclusive"
    ELSE "Failed"

\* determine_overall_result, verification.rs:639-661; success_rate is the
\* quotient num / den
determine_overall_result(success_rate, pattern_analysis) ==
    IF pattern_analysis.suspicious_sectors # {} THEN "Failed"
    ELSE IF success_rate.num * 100 >= 95 * success_rate.den THEN "Passed"
    ELSE IF success_rate.num * 100 >= 85 * success_rate.den THEN "Warning"
    ELSE IF success_rate.num * 100 >= 70 * success_rate.den THEN "Inconclusive"
    ELSE "Failed"

\* perform_verification after the loop, verification.rs:275-306
FinishVerification ==
    /\ verification # NoVerification
    /\ Len(sector_analyses) = verification.sample_locations
    /\ verification_result = NoVerificationResult
    /\ LET success_rate == [num |-> samples_passed, den |-> verification.sample_count]
           pattern_analysis == analyze_patterns(sector_analyses)
       IN verification_result' =
             [samples_tested |-> verification.sample_count,
              samples_passed |-> samples_passed,
              success_rate |-> success_rate,
              overall_result |-> determine_overall_result(success_rate, pattern_analysis),
              pattern_analysis |-> pattern_analysis,
              sector_analysis |-> sector_analyses]
    /\ UNCHANGED <<sample, sample_algorithm, sample_analysis, acceptable, verification,
                   buffers, sector_analyses, samples_passed, engineVars, certVars, libVars>>

NextVerify ==
    \/ \E algorithm \in {ZeroFill, OneFill, RandomAlg, DoD522022M},
          verification_type \in VerificationTypes, sample_count \in SampleCounts :
          PerformVerification(algorithm, verification_type, sample_count)
    \/ \E k \in 1..4 : AnalyzeSample(k)
    \/ FinishVerification

SpecVerify == Init /\ [][NextVerify]_vars

(***************************************************************************)
(* The library called one function at a time: the algorithm catalog, the   *)
(* sampling plan of the verification engine, the error kinds, and          *)
(* SafeEraseEngine's device list (lib.rs)                                  *)
(***************************************************************************)
\* a run calls one of the plain functions once, or SafeEraseEngine's methods
\* any number of times
NoInvocation == invocation.fn = "none"
EngineCall == invocation.fn \in {"none", "discover_devices", "start_wipe"}

\* every WipeAlgorithm variant, Custom with three lists
WipeAlgorithms ==
    {NIST80088, DoD522022M, Gutmann, RandomAlg, ZeroFill, OneFill, ATASecureErase,
     NVMeFormat, Custom(<<>>), Custom(<<Ones, Zeros>>), Custom(<<Pattern(<<>>)>>)}

\* WipeAlgorithm::patterns(&self)
AlgorithmPatterns(a) ==
    /\ NoInvocation
    /\ invocation' = [fn |-> "patterns", algorithm |-> a]
    /\ returned' = [fn |-> "patterns", value |-> patterns(a)]
    /\ UNCHANGED <<devices, discovered, engineVars, certVars, verifVars>>

\* WipeAlgorithm::is_hardware_based(&self)
AlgorithmIsHardwareBased(a) ==
    /\ NoInvocation
    /\ invocation' = [fn |-> "is_hardware_based", algorithm |-> a]
    /\ returned' = [fn |-> "is_hardware_based", value |-> is_hardware_based(a)]
    /\ UNCHANGED <<devices, discovered, engineVars, certVars, verifVars>>

\* verification.rs:311  let sample_size = 4096
SampleBytes == 4096
\* 1 GiB, 100 MiB and 10 MiB of verification.rs:315-321, in MiB
GiB == 1024
HundredMiB == 100
TenMiB == 10

Max(a, b) == IF a > b THEN a ELSE b

\* the device sizes the plan is asked for, in whole MiB: the quotients of
\* verification.rs:315-321 depend on device_size / 2^20 only
DeviceMiBs ==
    {m \in 0..MaxDeviceMiB : m % GiB \in {0, 1, GiB - 1} \/ m % 1000 \in {0, 1, 999}}

\* a plan whose Quick count is not held to its lower limit
calculate_sampling_parameters_unclamped(verification_type, device_mib) ==
    [sample_count |->
        CASE verification_type = "Quick" -> Min(100, device_mib \div GiB)
          [] verification_type = "Standard" ->
                Min(1000, Max(100, device_mib \div HundredMiB))
          [] verification_type = "Comprehensive" ->
                Min(10000, Max(1000, device_mib \div TenMiB))
          [] verification_type = "Custom" -> 500,
     sample_size |-> SampleBytes]

\* calculate_sampling_parameters(verification_type, device_size), device_size
\* given in MiB: (sample_count, sample_size)
calculate_sampling_parameters(verification_type, device_mib) ==
    [sample_count |->
        CASE verification_type = "Quick" -> Min(100, Max(10, device_mib \div GiB))
          [] verification_type = "Standard" ->
                Min(1000, Max(100, device_mib \div HundredMiB))
          [] verification_type = "Comprehensive" ->
                Min(10000, Max(1000, device_mib \div TenMiB))
          [] verification_type = "Custom" -> 500,
     sample_size |-> SampleBytes]

CalculateSamplingParameters(verification_type, device_mib) ==
    /\ NoInvocation
    /\ invocation' = [fn |-> "calculate_sampling_parameters",
                      verification_type |-> verification_type,
                      device_mib |-> device_mib]
    /\ returned' = [fn |-> "calculate_sampling_parameters",
                    value |-> calculate_sampling_parameters(verification_type,
                                                            device_mib)]
    /\ UNCHANGED <<devices, discovered, engineVars, certVars, verifVars>>

\* device_size.saturating_sub(sample_size as u64)
SaturatingSub(a, b) == IF a < b THEN 0 ELSE a - b

\* the offsets rng.gen_range(0..=max_offset) may draw (three representatives)
RandomOffsets(max_offset) == {0, max_offset \div 2, max_offset}

\* the systematic offsets (i * max_offset) / count for i in 0..count
SystematicOffsets(max_offset, count) ==
    [i \in 1..count |-> ((i - 1) * max_offset) \div count]

\* generate_sample_locations(device_size, sample_count, sample_size,
\* verification_type), sizes in bytes: the lists it may return
sample_locations(device_size, sample_count, sample_size, verification_type) ==
    LET max_offset == SaturatingSub(device_size, sample_size)
        systematic_count ==
            CASE verification_type = "Comprehensive" -> (sample_count * 3) \div 4
              [] verification_type = "Custom" -> sample_count
              [] OTHER -> 0
        random_count == sample_count - systematic_count
    IN  {SortSeq(SystematicOffsets(max_offset, systematic_count) \o random,
                 LAMBDA a, b : a < b) :
            random \in [1..random_count -> RandomOffsets(max_offset)]}

\* the device sizes the locations are asked for, in bytes
DeviceBytes ==
    {b \in 0..MaxDeviceBytes : b % SampleBytes \in {0, 1, SampleBytes - 1}}

GenerateSampleLocations(device_size, sample_count, verification_type) ==
    /\ NoInvocation
    /\ invocation' = [fn |-> "generate_sample_locations",
                      device_size |-> device_size, sample_count |-> sample_count,
                      sample_size |-> SampleBytes,
                      verification_type |-> verification_type]
    /\ \E locations \in sample_locations(device_size, sample_count, SampleBytes,
                                         verification_type) :
          returned' = [fn |-> "generate_sample_locations", value |-> locations]
    /\ UNCHANGED <<devices, discovered, engineVars, certVars, verifVars>>

\* the blocks generate_data is asked for
DataPatterns ==
    {Zeros, Ones, Fixed(90), Random, PseudoRandom(1), Complement, Pattern(<<>>),
     Pattern(<<1, 2>>)}
PreviousDatas ==
    {<<"None">>} \cup
    {<<"Some", d>> : d \in UNION {[1..n -> {0, ByteMod - 1}] : n \in 0..MaxDataSize}}

\* WipePattern::generate_data(&self, size, previous_data)
GenerateData(pattern, size, previous_data) ==
    /\ NoInvocation
    /\ invocation' = [fn |-> "generate_data", pattern |-> pattern, size |-> size,
                      previous_data |-> previous_data]
    /\ IF generate_data_panics(pattern, size)
       THEN returned' = [fn |-> "generate_data", panicked |-> TRUE, value |-> <<>>]
       ELSE \E data \in generate_data(pattern, size, previous_data) :
               returned' = [fn |-> "generate_data", panicked |-> FALSE,
                            value |-> data]
    /\ UNCHANGED <<devices, discovered, engineVars, certVars, verifVars>>

\* core-engine/src/error.rs: the variants of SafeEraseError
SafeEraseErrors ==
    {"DeviceNotFound", "DeviceAccessDenied", "DeviceBusy", "DeviceIoError",
     "UnsupportedDevice", "WipeFailed", "WipeCancelled", "VerificationFailed",
     "UnsupportedAlgorithm", "InsufficientPrivileges", "SystemCommandFailed",
     "UnsupportedPlatform", "CertificateError", "CryptographicError",
     "SignatureVerificationFailed", "InvalidConfiguration", "InvalidParameter",
     "Timeout", "FileSystemError", "PermissionDenied", "NetworkError",
     "CommunicationTimeout", "Internal", "Unknown"}

\* certificate-gen/src/error.rs: the variants of CertificateError
CertificateErrors ==
    {"CryptographicError", "KeyGenerationFailed", "SigningFailed",
     "SignatureVerificationFailed", "InvalidCertificateFormat",
     "PdfGenerationFailed", "PdfTemplateError", "FontLoadingFailed",
     "JsonSerializationFailed", "JsonDeserializationFailed",
     "FileOperationFailed", "FileNotFound", "PermissionDenied",
     "InvalidFileFormat", "TemplateNotFound", "TemplateParsingFailed",
     "TemplateRenderingFailed", "QrCodeGenerationFailed", "QrCodeDataTooLarge",
     "CertificateValidationFailed", "InvalidCertificateData",
     "MissingRequiredField", "InvalidTimestamp", "NetworkError",
     "VerificationServiceUnavailable", "CertificateNotFoundInDatabase",
     "InvalidConfiguration", "MissingConfiguration", "Internal", "NotSupported"}

\* SafeEraseError::is_recoverable
is_recoverable(e) ==
    CASE e = "DeviceBusy" -> TRUE
      [] e = "CommunicationTimeout" -> TRUE
      [] e = "NetworkError" -> TRUE
      [] e = "Timeout" -> TRUE
      [] OTHER -> FALSE

\* CertificateError::is_recoverable
certificate_is_recoverable(e) ==
    CASE e = "NetworkError" -> TRUE
      [] e = "VerificationServiceUnavailable" -> TRUE
      [] e = "FileOperationFailed" -> TRUE
      [] e = "PermissionDenied" -> FALSE
      [] e = "SignatureVerificationFailed" -> FALSE
      [] e = "InvalidCertificateFormat" -> FALSE
      [] OTHER -> FALSE

IsRecoverable(e) ==
    /\ NoInvocation
    /\ invocation' = [fn |-> "is_recoverable", crate |-> "core-engine", error |-> e]
    /\ returned' = [fn |-> "is_recoverable", value |-> is_recoverable(e)]
    /\ UNCHANGED <<devices, discovered, engineVars, certVars, verifVars>>

CertificateIsRecoverable(e) ==
    /\ NoInvocation
    /\ invocation' = [fn |-> "is_recoverable", crate |-> "certificate-gen",
                      error |-> e]
    /\ returned' = [fn |-> "is_recoverable", value |-> certificate_is_recoverable(e)]
    /\ UNCHANGED <<devices, discovered, engineVars, certVars, verifVars>>

\* the device paths of the machine
DevicePaths == {"sda", "sdb"}
\* what platform::enumerate_storage_devices may list
Enumerations ==
    {<<>>, <<"sda">>, <<"sdb">>, <<"sda", "sdb">>, <<"sdb", "sda">>}

\* device.rs:190-211  discover_devices: the DeviceInfo of every listed path
\* that Device::open opens (first is the set of paths it opens)
discover_devices(enumerated, first) == SelectSeq(enumerated, LAMBDA p : p \in first)

\* lib.rs:51-71  SafeEraseEngine::discover_devices: the engine opens every
\* discovered device once more (second is the set of paths this open succeeds
\* for), keeps the ones that opened and returns the whole discovered list
DiscoverDevices(enumerated, first, second) ==
    LET found == discover_devices(enumerated, first)
    IN  /\ EngineCall
        /\ devices' = SelectSeq(found, LAMBDA p : p \in second)
        /\ discovered' = found
        /\ invocation' = [fn |-> "discover_devices"]
        /\ returned' = [fn |-> "discover_devices", err |-> "None", value |-> found]
        /\ UNCHANGED <<engineVars, certVars, verifVars>>

\* lib.rs:54  device::discover_devices().await? fails (the enumeration failed)
DiscoverDevicesErr ==
    /\ EngineCall
    /\ invocation' = [fn |-> "discover_devices"]
    /\ returned' = [fn |-> "discover_devices", err |-> "SystemCommandFailed",
                    value |-> <<>>]
    /\ UNCHANGED <<devices, discovered, engineVars, certVars, verifVars>>

\* lib.rs:74-89  SafeEraseEngine::start_wipe up to the lookup: DeviceNotFound,
\* or the device is handed to wipe_device
StartWipe(device_path) ==
    /\ EngineCall
    /\ invocation' = [fn |-> "start_wipe", device_path |-> device_path]
    /\ returned' =
          [fn |-> "start_wipe",
           err |-> IF \E i \in 1..Len(devices) : devices[i] = device_path
                   THEN "None" ELSE "DeviceNotFound"]
    /\ UNCHANGED <<devices, discovered, engineVars, certVars, verifVars>>

NextLib ==
    \/ \E a \in WipeAlgorithms : AlgorithmPatterns(a)
    \/ \E a \in WipeAlgorithms : AlgorithmIsHardwareBased(a)
    \/ \E t \in VerificationTypes, m \in DeviceMiBs : CalculateSamplingParameters(t, m)
    \/ \E t \in VerificationTypes, b \in DeviceBytes, n \in 0..MaxLocations :
          GenerateSampleLocations(b, n, t)
    \/ \E p \in DataPatterns, n \in 0..MaxDataSize, d \in PreviousDatas :
          GenerateData(p, n, d)
    \/ \E e \in SafeEraseErrors : IsRecoverable(e)
    \/ \E e \in CertificateErrors : CertificateIsRecoverable(e)
    \/ \E l \in Enumerations, first \in SUBSET DevicePaths,
          second \in SUBSET DevicePaths : DiscoverDevices(l, first, second)
    \/ DiscoverDevicesErr
    \/ \E p \in DevicePaths : StartWipe(p)

SpecLib == Init /\ [][NextLib]_vars

(***************************************************************************)
(* Properties of the wipe engine                                           *)
(***************************************************************************)
Started(o) == request[o] # NoRequest

\* wipe_device returned Ok(result)
ReturnedOk(o) == callerPc[o] = "returned" /\ callRet[o] = "Ok"

RECURSIVE BytesInWrites(_)
\* the bytes an operation has written to its device so far
BytesInWrites(tr) ==
    IF tr = <<>> THEN 0
    ELSE (IF Head(tr).kind = "write" THEN Len(Head(tr).data) ELSE 0)
           + BytesInWrites(Tail(tr))

HasEvent(o, kind) == \E k \in 1..Len(trace[o]) : trace[o][k].kind = kind

\* C1: every WipeResult that wipe_device returns has a terminal status
\* (Completed, Failed or Cancelled), never a non-terminal one such as
\* Verifying.
C1_ReturnedStatusTerminal ==
    \A o \in Ops : ReturnedOk(o) => result[o].status \in TerminalStatus

\* C2: a Completed result reports as passes_completed the number of patterns
\* of its algorithm, or 1 when the algorithm is a hardware algorithm,
\* whatever the options are.
C2_PassesCompleted ==
    \A o \in Ops :
        ReturnedOk(o) /\ result[o].status = "Completed" =>
            result[o].passes_completed =
                IF is_hardware_based(Alg(o)) THEN 1 ELSE Len(patterns(Alg(o)))

\* C3: when the token of an operation is tripped before the operation is
\* over, wipe_device returns a result with status Cancelled, bytes_wiped
\* equal to the bytes written, and completed_at set.
C3_CancelledResult ==
    \A o \in Ops :
        ReturnedOk(o) /\ late[o].tripped_live =>
            /\ result[o].status = "Cancelled"
            /\ result[o].bytes_wiped = BytesInWrites(trace[o])
            /\ result[o].completed_at

\* C4: after the token of an operation is tripped, the software loop of that
\* operation writes at most one further block.
C4_AtMostOneBlockAfterTrip ==
    \A o \in Ops : late[o].cancel <= 1

\* C4 witness: a block was written after the trip, and the loop then stopped
\* on the token.
C4_Witness ==
    \E o \in Ops :
        /\ late[o].cancel = 1
        /\ taskPc[o] = "done"
        /\ result[o].error_message = CancelMsg

\* C5: once a wipe_device call has returned, whatever it returned, its
\* operation id is no longer in the registry of active operations.
C5_UnregisteredAfterReturn ==
    \A o \in Ops : callerPc[o] = "returned" => ~Registered(o)

\* C6: when wipe_device returns the Timeout error, the token of the operation
\* is tripped and its task writes no block beyond the one in flight.
C6_TimeoutCancels ==
    \A o \in Ops :
        callRet[o] = "Timeout" => cancelled[o] /\ late[o].timeout <= 1

\* C7: no command (HPA/DCO, block write, hardware erase, flush) is issued to
\* a device whose descriptor says is_system_disk; WipeOptions carries no
\* override flag.
C7_SystemDiskRefused ==
    \A o \in Ops :
        Started(o) /\ Dev(o).is_system_disk => trace[o] = <<>>

\* C8: the passes of one wipe are sequential, and between the last block of
\* a pass and the first block of the next pass there is a cache flush.
C8_FlushBetweenPasses ==
    \A o \in Ops :
        \A i, j \in 1..Len(trace[o]) :
            i < j /\ trace[o][i].kind = "write" /\ trace[o][j].kind = "write" =>
                /\ trace[o][i].pass <= trace[o][j].pass
                /\ trace[o][i].pass < trace[o][j].pass =>
                      \E k \in (i + 1)..(j - 1) : trace[o][k].kind = "flush"

\* C9: a flush_cache that fails after the last pass does not make the
\* operation Failed; the result still carries the passes completed and the
\* bytes written.
C9_FlushFailureIsWarning ==
    \A o \in Ops :
        \A k \in 1..Len(trace[o]) :
            /\ taskPc[o] = "done"
            /\ trace[o][k].kind = "flush"
            /\ trace[o][k].data = <<"Err">>
            => /\ result[o].status # "Failed"
               /\ result[o].passes_completed = Len(patterns(Alg(o)))
               /\ result[o].bytes_wiped = BytesInWrites(trace[o])

HpaStepFailed(o) ==
    \E k \in 1..Len(trace[o]) :
        trace[o][k].kind = "hpa_done" /\ trace[o][k].data[3] = "Err"

InStatuses(o, st) == \E i \in 1..Len(statuses[o]) : statuses[o][i] = st

\* C11: an error of the HPA step does not abort the operation: the DCO step
\* is attempted after it, the Wiping phase is entered after that, and the
\* HPA flags of the result stay false.
C11_PreWipeErrorContinues ==
    \A o \in Ops :
        HpaStepFailed(o) =>
            /\ ~result[o].hpa_detected /\ ~result[o].hpa_cleared
            /\ taskPc[o] # "dco_start" => HasEvent(o, "dco")
            /\ taskPc[o] \notin {"dco_start", "dco_call", "wipe_start"} =>
                  InStatuses(o, "Wiping")

\* C11 witness: an operation whose HPA step failed went on to the DCO step
\* and the wipe, and completed.
C11_Witness ==
    \E o \in Ops :
        /\ HpaStepFailed(o)
        /\ HasEvent(o, "dco")
        /\ HasEvent(o, "write")
        /\ taskPc[o] = "done"
        /\ result[o].status = "Completed"

\* C12: after the HPA step, hpa_detected is true exactly when the device
\* reported an HPA (also when clearing it failed), and hpa_cleared is true
\* only when an HPA was reported and the clear command succeeded.
C12_HpaFlags ==
    \A o \in Ops :
        \A k \in 1..Len(trace[o]) :
            trace[o][k].kind = "hpa_done" =>
                /\ result[o].hpa_detected = (trace[o][k].data[1] = 1)
                /\ result[o].hpa_cleared =>
                      trace[o][k].data[1] = 1 /\ trace[o][k].data[2] = 1

\* C13: an operation that wrote to a non-empty device has published at least
\* one WipeProgress by the time it is over, and the updates of an operation
\* never decrease in bytes_processed or current_pass.
C13_ProgressPublished ==
    \A o \in Ops :
        /\ taskPc[o] = "done" /\ BytesInWrites(trace[o]) > 0 =>
              Len(progress[o]) >= 1
        /\ \A i \in 1..(Len(progress[o]) - 1) :
              /\ progress[o][i].bytes_processed <= progress[o][i + 1].bytes_processed
              /\ progress[o][i].current_pass <= progress[o][i + 1].current_pass

\* the request asks for the hardware command
HardwareRequested(o) ==
    /\ request[o].options.prefer_hardware_erase
    /\ request[o].algorithm.name \in {"ATASecureErase", "NVMeFormat"}

InSoftwareLoop(o) ==
    taskPc[o] \in {"pass_check", "block_check", "block_write", "flush"}

\* C14: the hardware command is issued exactly when prefer_hardware_erase is
\* set and the algorithm is hardware-based, and perform_wipe then reports
\* bytes_wiped = device size and passes_completed = 1 without any software
\* block loop; in every other case the software loop runs and no hardware
\* command is issued.
C14_HardwareDispatch ==
    \A o \in Ops :
        Started(o) =>
            /\ HasEvent(o, "hw") =>
                  HardwareRequested(o) /\ ~HasEvent(o, "write") /\ ~HasEvent(o, "flush")
            /\ taskPc[o] \in {"hw_issue", "hw_wait"} => HardwareRequested(o)
            /\ HasEvent(o, "write") \/ HasEvent(o, "flush") \/ InSoftwareLoop(o) =>
                  ~HardwareRequested(o) /\ ~HasEvent(o, "hw")
            /\ result[o].wipe_time /\ HardwareRequested(o) =>
                  /\ HasEvent(o, "hw_done")
                  /\ result[o].bytes_wiped = Dev(o).size
                  /\ result[o].passes_completed = 1
            /\ result[o].wipe_time /\ ~HardwareRequested(o) =>
                  HasEvent(o, "flush") /\ ~HasEvent(o, "hw")

\* C14 witness: a hardware erase of a non-empty device that completed.
C14_Witness ==
    \E o \in Ops :
        /\ Started(o)
        /\ HardwareRequested(o)
        /\ HasEvent(o, "hw_done")
        /\ Dev(o).size > 0
        /\ result[o].bytes_wiped = Dev(o).size
        /\ result[o].status = "Completed"

\* the hardware command of an operation ran to its end and succeeded
HardwareSucceeded(o) ==
    \E k \in 1..Len(trace[o]) :
        trace[o][k].kind = "hw_done" /\ trace[o][k].data = <<"Ok">>

\* C15: when cancel_operation trips the token while the hardware command is
\* in flight, the command still runs to its end, and when it has succeeded
\* the result returned afterwards has status Cancelled and no partial byte
\* count.
C15_CancelDuringHardware ==
    \A o \in Ops :
        ReturnedOk(o) /\ late[o].during_hw =>
            /\ HasEvent(o, "hw_done")
            /\ HardwareSucceeded(o) =>
                  /\ result[o].status = "Cancelled"
                  /\ result[o].bytes_wiped \in {0, Dev(o).size}

\* C16: a cancel_operation(id) whose id is not in the registry of active
\* operations returns an error and trips no token.
C16_CancelUnknownId ==
    [][\A o \in Ops :
          o \notin get_active_operations =>
              /\ cancelled'[o] = cancelled[o]
              /\ cancelRet' # cancelRet /\ cancelRet'.id = o => cancelRet'.ret = "Err"]_vars

\* C16 witness: cancel_operation was called with the id of an operation that
\* had left the registry; it returned the error and the token is untouched.
C16_Witness ==
    \E o \in Ops :
        /\ cancelRet = [id |-> o, ret |-> "Err"]
        /\ callerPc[o] = "returned"
        /\ o \notin get_active_operations
        /\ ~cancelled[o]

\* C17: while a wipe_device call is between registering its operation and
\* returning, get_active_operations contains the operation's id, and a
\* cancel_operation of that id made by any client returns Ok and leaves the
\* operation's token tripped.
C17_RegisteredWhileRunning ==
    /\ [](\A o \in Ops : callerPc[o] = "waiting" => o \in get_active_operations)
    /\ [][\A o \in Ops :
            callerPc[o] = "waiting" /\ cancelRet' # cancelRet /\ cancelRet'.id = o =>
                cancelRet'.ret = "Ok" /\ cancelled'[o]]_vars

\* C17 witness: one call has returned and left the registry while the other
\* is still running, listed, and was cancelled with Ok in the middle of its
\* software loop.
C17_Witness ==
    \E o, other \in Ops :
        /\ o # other
        /\ callerPc[other] = "returned" /\ callRet[other] = "Ok"
        /\ callerPc[o] = "waiting"
        /\ taskPc[o] = "block_write"
        /\ o \in get_active_operations
        /\ cancelRet = [id |-> o, ret |-> "Ok"]
        /\ cancelled[o]

\* WipeStatus in the order of the state machine; the terminal values share
\* the last rank
Rank(st) ==
    CASE st = "Initializing" -> 1
      [] st = "DetectingHPA" -> 2
      [] st = "ClearingHPA" -> 3
      [] st = "DetectingDCO" -> 4
      [] st = "ClearingDCO" -> 5
      [] st = "Wiping" -> 6
      [] st = "Verifying" -> 7
      [] st \in TerminalStatus -> 8

\* C18: every change of the status of an operation moves it strictly forward
\* in the order Initializing, DetectingHPA, ClearingHPA, DetectingDCO,
\* ClearingDCO, Wiping, Verifying, terminal; a terminal status is never
\* changed.
C18_StatusMonotone ==
    \A o \in Ops :
        \A i \in 1..(Len(statuses[o]) - 1) :
            Rank(statuses[o][i]) < Rank(statuses[o][i + 1])

\* C18 witness: an operation that cleared an HPA, wiped, and failed its
\* verification, after which the final step ran.
C18_Witness ==
    \E o \in Ops :
        /\ taskPc[o] = "done"
        /\ statuses[o] = <<"Initializing", "DetectingHPA", "ClearingHPA",
                           "DetectingDCO", "Wiping", "Verifying", "Failed">>

WritesOfPass(tr, p) ==
    SelectSeq(tr, LAMBDA e : e.kind = "write" /\ e.pass = p)

\* C30: every block a Complement pass writes is the bitwise NOT of the bytes
\* the previous pass wrote to the same region (the block at the same
\* position); only when there is no previous pass are the bytes 0xFF.
C30_ComplementOfPreviousPass ==
    \A o \in Ops :
        Started(o) =>
            \A p \in 1..Len(patterns(Alg(o))) :
                patterns(Alg(o))[p].kind = "Complement" =>
                    \A k \in 1..Len(WritesOfPass(trace[o], p)) :
                        LET w == WritesOfPass(trace[o], p)[k].data IN
                        IF p = 1 THEN w = Fill(ByteMod - 1, Len(w))
                        ELSE LET b == WritesOfPass(trace[o], p - 1)[k].data IN
                             w = [i \in 1..Len(b) |-> NotByte(b[i])]

\* C35: in each software pass block k is written at the byte offset that is
\* the total size of blocks 0..k-1 (start LBA * logical sector size = bytes
\* written so far), each block has size min(min(block_size, 1 MiB), size -
\* bytes_written), and the pass terminates with bytes_written = device size;
\* for every block_size option (0 included) and every device size.
C35_BlockLayout ==
    \A o \in Ops :
        Started(o) =>
            /\ taskPc[o] # "panicked"
            /\ \A p \in 1..Len(patterns(Alg(o))) :
                  LET w == WritesOfPass(trace[o], p)
                      over == \E k \in 1..Len(trace[o]) :
                                  \/ trace[o][k].kind = "flush"
                                  \/ trace[o][k].kind = "write" /\ trace[o][k].pass > p
                  IN  /\ \A k \in 1..Len(w) :
                            LET before == BytesInWrites(SubSeq(w, 1, k - 1)) IN
                            /\ w[k].off * Dev(o).logical_sector_size = before
                            /\ Len(w[k].data) =
                                  Min(Min(Opt(o).block_size, MaxBlockSize),
                                      Dev(o).size - before)
                      /\ over => BytesInWrites(w) = Dev(o).size

\* C36: a WipeResult with status Completed has passes_completed >= 1 and
\* bytes_wiped >= the device size, for every algorithm, Custom with an empty
\* pattern list and hardware algorithms run without prefer_hardware_erase
\* included.
C36_CompletedMeansWiped ==
    \A o \in Ops :
        ReturnedOk(o) /\ result[o].status = "Completed" =>
            /\ result[o].passes_completed >= 1
            /\ result[o].bytes_wiped >= Dev(o).size

(***************************************************************************)
(* Properties of certificate signing                                       *)
(***************************************************************************)
\* the signer holds a key pair, and the verifier trusts its public key under
\* its key id
SignerTrusted ==
    /\ signer # NoSigner
    /\ signer.private_key = signer.public_key
    /\ [key_id |-> signer.key_id, key |-> signer.public_key] \in trusted_keys

\* C20: for every certificate that passes validate and every signer key
\* pair, verify_certificate of what sign_certificate returned, with the
\* signer's public key trusted under its key id, returns Ok(true).
C20_SignThenVerify ==
    /\ signed_certificate # NotSigned /\ validate(certificate) = "Ok" =>
          IsEnvelope(signed_certificate)
    /\ IsEnvelope(signed_certificate) /\ SignerTrusted =>
          verify_certificate(trusted_keys, signed_certificate) = "OkTrue"

\* C21: serializing a valid certificate, parsing it back and serializing it
\* again gives the identical bytes, also with several metadata entries; so
\* the hash recomputed for a stored, untampered envelope equals the
\* certificate_hash computed at signing.
C21_ReserializeIdentical ==
    IsEnvelope(received_certificate) /\ ~Tampered =>
        /\ to_string(received_certificate.certificate)
              = to_string(signed_certificate.certificate)
        /\ Sha256Hex(to_string(received_certificate.certificate))
              = received_certificate.signature_info.certificate_hash

\* the hash stored in the received envelope is the hash of its certificate
HashMatches ==
    Sha256Hex(to_string(received_certificate.certificate))
        = received_certificate.signature_info.certificate_hash

\* C22 as stated: a tampered inner certificate makes verify_certificate,
\* with the signer's key trusted, return false.
C22_TamperedVerifiesFalse ==
    Tampered /\ SignerTrusted =>
        verify_certificate(trusted_keys, received_certificate) = "OkFalse"

\* C22 amended: with the signer's key trusted, a tampered inner certificate
\* never verifies as true; verify_certificate returns the envelope's
\* validation error when the tampered envelope fails validation, and
\* Ok(false) otherwise, also when the stored hash was recomputed to match.
C22_TamperedNeverVerifies ==
    Tampered /\ SignerTrusted =>
        /\ verify_certificate(trusted_keys, received_certificate) # "OkTrue"
        /\ validate_signed(received_certificate) = "Ok" =>
              verify_certificate(trusted_keys, received_certificate) = "OkFalse"
        /\ validate_signed(received_certificate) # "Ok" =>
              verify_certificate(trusted_keys, received_certificate)
                  \in {"InvalidCertificateData", "MissingRequiredField",
                       "InvalidTimestamp"}

\* a tampered certificate whose hash was recomputed passed validation, key
\* lookup and hash comparison, and the signature check returned false
C22_Witness ==
    /\ Tampered /\ SignerTrusted /\ HashMatches
    /\ verifyRet = "OkFalse"
    /\ verifyRet = verify_certificate(trusted_keys, received_certificate)

\* the trust store has a key under the envelope's key id
KeyKnown ==
    \E e \in trusted_keys : e.key_id = received_certificate.signature_info.key_id

\* C23: verify_certificate checks envelope validation, then the trusted-key
\* lookup, then the hash, then the signature: an envelope that fails
\* validation gets the validation error; a valid one whose key_id is not
\* trusted gets SignatureVerificationFailed, also when its hash is wrong; a
\* hash mismatch under a trusted key gets Ok(false).
C23_CheckOrder ==
    [][verifyRet' # verifyRet =>
          /\ validate_signed(received_certificate) # "Ok" =>
                verifyRet' = validate_signed(received_certificate)
          /\ validate_signed(received_certificate) = "Ok" /\ ~KeyKnown =>
                verifyRet' = "SignatureVerificationFailed"
          /\ validate_signed(received_certificate) = "Ok" /\ KeyKnown /\ ~HashMatches =>
                verifyRet' = "OkFalse"]_vars

\* a valid envelope with a wrong hash and an untrusted key id was verified
C23_Witness ==
    /\ IsEnvelope(received_certificate)
    /\ validate_signed(received_certificate) = "Ok"
    /\ ~KeyKnown /\ ~HashMatches
    /\ verifyRet = "SignatureVerificationFailed"

\* the rules of a valid certificate; the rate of no samples is 0
MeetsRules(c) ==
    /\ ~c.data.certificate_id_nil
    /\ c.data.serial # "" /\ c.data.model # ""
    /\ c.data.completed_at # None => c.data.completed_at[1] >= c.data.started_at
    /\ c.data.verification_info # None =>
          LET v == c.data.verification_info[1]
              diff == v.samples_passed * 100 - v.success_rate * v.samples_tested
          IN /\ v.samples_passed <= v.samples_tested
             /\ IF v.samples_tested = 0 THEN v.success_rate = 0
                ELSE (IF diff < 0 THEN -diff ELSE diff) <= v.samples_tested

\* C24: validate returns Ok exactly when the id is non-nil, serial and
\* model are non-empty, completed_at is not before started_at, and
\* samples_passed <= samples_tested with the success rate within 0.01 of
\* samples_passed / samples_tested; sign_certificate, which starts with
\* validate, signs exactly those certificates.
C24_ValidateExactly ==
    /\ certificate # NoCertificate =>
          ((validate(certificate) = "Ok") <=> MeetsRules(certificate))
    /\ signed_certificate # NotSigned =>
          (IsEnvelope(signed_certificate) <=> MeetsRules(certificate))

\* C25: every envelope sign_certificate emits passes
\* SignedCertificate::validate (signed_at >= generated_at), and no envelope
\* is emitted for a certificate that fails validation.
C25_EnvelopeInvariant ==
    /\ IsEnvelope(signed_certificate) =>
          /\ signed_certificate.signed_at
                >= signed_certificate.certificate.data.generated_at
          /\ validate_signed(signed_certificate) = "Ok"
    /\ signed_certificate # NotSigned /\ validate(certificate) # "Ok" =>
          ~IsEnvelope(signed_certificate)

(***************************************************************************)
(* Properties of the verification engine                                   *)
(***************************************************************************)
\* the success rate of a result is at least percent / 100
RateAtLeast(r, percent) == r.success_rate.num * 100 >= percent * r.success_rate.den

\* a sample of the result was classified Suspicious
HasSuspicious(r) ==
    \E i \in 1..Len(r.sector_analysis) :
        r.sector_analysis[i].pattern_type = "Suspicious"

\* C26: the verdict is Failed whenever at least one sample is classified
\* Suspicious, whatever the success rate; otherwise Passed for a rate
\* >= 0.95, Warning for >= 0.85, Inconclusive for >= 0.70, Failed below.
C26_Verdict ==
    verification_result # NoVerificationResult =>
        verification_result.overall_result =
            IF HasSuspicious(verification_result) THEN "Failed"
            ELSE IF RateAtLeast(verification_result, 95) THEN "Passed"
            ELSE IF RateAtLeast(verification_result, 85) THEN "Warning"
            ELSE IF RateAtLeast(verification_result, 70) THEN "Inconclusive"
            ELSE "Failed"

\* a run with one Suspicious sample and a success rate of 0.95 was Failed
C26_Witness ==
    /\ verification_result # NoVerificationResult
    /\ HasSuspicious(verification_result)
    /\ RateAtLeast(verification_result, 95)
    /\ verification_result.overall_result = "Failed"

\* the rule of the wipe's algorithm for the type of a sample
RuleAccepts(a, algorithm) ==
    IF algorithm.name = "ZeroFill" THEN a.pattern_type = "AllZeros"
    ELSE IF algorithm.name = "OneFill" THEN a.pattern_type = "AllOnes"
    ELSE IF algorithm.name \in {"Random", "NIST80088"}
         THEN a.pattern_type = "Random" /\ a.entropy > entropy_threshold
    ELSE a.pattern_type # "Suspicious"

\* C27 as stated: a sample is counted as passed exactly according to the
\* algorithm rule: AllZeros after ZeroFill, AllOnes after OneFill, Random
\* with entropy > 7.5 after Random or NIST80088, any type but Suspicious
\* after any other algorithm.
C27_AcceptedByRule ==
    acceptable # <<>> =>
        (acceptable[1] <=> RuleAccepts(sample_analysis, sample_algorithm))

\* C27 amended: a sample with an anomaly is never counted as passed; a
\* sample without anomalies is counted as passed exactly according to the
\* algorithm rule.
C27_AcceptedByRuleWithoutAnomalies ==
    acceptable # <<>> =>
        (acceptable[1] <=>
            /\ sample_analysis.anomalies = {}
            /\ RuleAccepts(sample_analysis, sample_algorithm))

\* a sample that is not Suspicious and meets its algorithm's rule was
\* rejected for an anomaly
C27_Witness ==
    /\ acceptable = <<FALSE>>
    /\ sample_analysis.pattern_type # "Suspicious"
    /\ sample_analysis.anomalies # {}
    /\ RuleAccepts(sample_analysis, sample_algorithm)

\* what each rule of detect_pattern_type finds in each sample of the model
Features ==
    [kind \in SampleKinds |->
        [all_zeros |-> \A i \in 1..Len(SampleData(kind)) : SampleData(kind)[i] = 0,
         all_ones |-> \A i \in 1..Len(SampleData(kind)) :
                          SampleData(kind)[i] = ByteMod - 1,
         repeating |-> has_repeating_pattern(SampleData(kind)),
         high_entropy |-> calculate_entropy(SampleData(kind)) > entropy_threshold,
         signature |-> has_structured_data(SampleData(kind))]]

\* C28: detect_pattern_type classifies by the first matching rule in the
\* order AllZeros, AllOnes, Repeating, Random (entropy > 7.5), Suspicious
\* (a signature), else Structured: an all-zero sample is AllZeros rather
\* than Repeating, and only non-repeating samples with entropy <= 7.5 are
\* Suspicious.
C28_FirstMatchingRule ==
    sample_analysis # NoAnalysis =>
        LET f == Features[sample]
            t == sample_analysis.pattern_type
        IN /\ t = "AllZeros" <=> f.all_zeros
           /\ t = "AllOnes" <=> ~f.all_zeros /\ f.all_ones
           /\ t = "Repeating" <=> ~f.all_zeros /\ ~f.all_ones /\ f.repeating
           /\ t = "Random" <=>
                 ~f.all_zeros /\ ~f.all_ones /\ ~f.repeating /\ f.high_entropy
           /\ t = "Suspicious" <=>
                 /\ ~f.all_zeros /\ ~f.all_ones /\ ~f.repeating
                 /\ ~f.high_entropy /\ f.signature
           /\ t = "Structured" <=>
                 /\ ~f.all_zeros /\ ~f.all_ones /\ ~f.repeating
                 /\ ~f.high_entropy /\ ~f.signature

\* a sample with a signature and high entropy was classified Random
C28_Witness ==
    /\ sample_analysis # NoAnalysis
    /\ Features[sample].signature /\ Features[sample].high_entropy
    /\ sample_analysis.pattern_type = "Random"

\* C29: every VerificationResult has samples_passed <= samples_tested,
\* samples_tested equal to the number of samples analysed (one sector
\* analysis per sample), and success_rate within 0.01 of
\* samples_passed / samples_tested.
C29_ResultCounts ==
    verification_result # NoVerificationResult =>
        LET r == verification_result
            diff == r.samples_passed * r.success_rate.den
                      - r.success_rate.num * r.samples_tested
        IN /\ r.samples_passed <= r.samples_tested
           /\ r.samples_tested = Len(r.sector_analysis)
           /\ r.samples_tested > 0 /\ r.success_rate.den > 0
           /\ (IF diff < 0 THEN -diff ELSE diff) * 100
                 <= r.samples_tested * r.success_rate.den

\* a Comprehensive run over a sample count that 4 does not divide, with
\* some samples passed and some not
C29_Witness ==
    /\ verification_result # NoVerificationResult
    /\ verification.verification_type = "Comprehensive"
    /\ verification.sample_count % 4 # 0
    /\ 0 < verification_result.samples_passed
    /\ verification_result.samples_passed < verification_result.samples_tested


(***************************************************************************)
(* Properties of the library's plain functions and of SafeEraseEngine      *)
(***************************************************************************)
\* C31: patterns(A) is [Random] for NIST80088 and Random, [Zeros, Ones,
\* Random] for DoD522022M, [Zeros] for ZeroFill, [Ones] for OneFill, a list
\* of 35 patterns that begins and ends with four Random passes for Gutmann,
\* empty for ATASecureErase and NVMeFormat and L for Custom(L); and
\* is_hardware_based(A) holds exactly for ATASecureErase and NVMeFormat.
C31_PatternsOfAlgorithm ==
    /\ invocation.fn = "patterns" =>
          LET a == invocation.algorithm
              v == returned.value
          IN  /\ a.name \in {"NIST80088", "Random"} => v = <<Random>>
              /\ a.name = "DoD522022M" => v = <<Zeros, Ones, Random>>
              /\ a.name = "ZeroFill" => v = <<Zeros>>
              /\ a.name = "OneFill" => v = <<Ones>>
              /\ a.name = "Gutmann" =>
                    /\ Len(v) = 35
                    /\ \A i \in 1..4 : v[i] = Random /\ v[Len(v) - 4 + i] = Random
              /\ a.name \in {"ATASecureErase", "NVMeFormat"} => v = <<>>
              /\ a.name = "Custom" => v = a.custom
    /\ invocation.fn = "is_hardware_based" =>
          (returned.value <=>
              invocation.algorithm.name \in {"ATASecureErase", "NVMeFormat"})

\* the Gutmann list has been asked for
C31_Witness ==
    /\ invocation.fn = "patterns"
    /\ invocation.algorithm = Gutmann
    /\ Len(returned.value) = 35


\* the value between lo and hi nearest to x
Clamp(x, lo, hi) == IF x < lo THEN lo ELSE IF x > hi THEN hi ELSE x

\* C32: the number of samples is clamp(device_size / 1 GiB, 10, 100) for
\* Quick, clamp(device_size / 100 MiB, 100, 1000) for Standard,
\* clamp(device_size / 10 MiB, 1000, 10000) for Comprehensive and 500 for
\* Custom, with integer division, for every device size; it is never 0.
C32_SampleCount ==
    invocation.fn = "calculate_sampling_parameters" =>
        LET t == invocation.verification_type
            m == invocation.device_mib
            n == returned.value.sample_count
        IN  /\ t = "Quick" => n = Clamp(m \div 1024, 10, 100)
            /\ t = "Standard" => n = Clamp(m \div 100, 100, 1000)
            /\ t = "Comprehensive" => n = Clamp(m \div 10, 1000, 10000)
            /\ t = "Custom" => n = 500
            /\ n > 0

\* a Quick plan for a 57 GiB device, strictly between the limits
C32_Witness ==
    /\ invocation.fn = "calculate_sampling_parameters"
    /\ invocation.verification_type = "Quick"
    /\ invocation.device_mib = 57 * GiB
    /\ returned.value.sample_count = 57


\* how often x occurs in the list
Occurrences(list, x) == Cardinality({i \in DOMAIN list : list[i] = x})

\* C33: for every verification type and device size generate_sample_locations
\* returns exactly sample_count offsets, each in [0, size - sample_size], so
\* that the whole sample lies inside the device; for Comprehensive,
\* floor(3/4 * sample_count) of them are the evenly spaced systematic offsets
\* and the list is sorted ascending.
C33_SamplesInsideDevice ==
    invocation.fn = "generate_sample_locations" =>
        LET v == returned.value
            size == invocation.device_size
            count == invocation.sample_count
            systematic == SystematicOffsets(size - invocation.sample_size,
                                            (3 * count) \div 4)
        IN  /\ Len(v) = count
            /\ \A i \in 1..Len(v) :
                  0 <= v[i] /\ v[i] + invocation.sample_size <= size
            /\ invocation.verification_type = "Comprehensive" =>
                  /\ \A k \in 1..Len(systematic) :
                        Occurrences(v, systematic[k]) >=
                            Occurrences(systematic, systematic[k])
                  /\ \A i \in 1..(Len(v) - 1) : v[i] <= v[i + 1]


\* C34: is_recoverable is true for device-busy, timeout, network and generic
\* I/O errors, and false for permission-denied, signature-verification-
\* failed, invalid-format and insufficient-privileges errors.
C34_Recoverability ==
    invocation.fn = "is_recoverable" =>
        /\ invocation.error \in
              {"DeviceBusy", "Timeout", "CommunicationTimeout", "NetworkError",
               "DeviceIoError", "FileSystemError", "FileOperationFailed"}
              => returned.value
        /\ invocation.error \in
              {"PermissionDenied", "SignatureVerificationFailed",
               "InvalidCertificateFormat", "InvalidFileFormat",
               "InsufficientPrivileges"}
              => ~returned.value


(***************************************************************************)
(* Further properties of the registry of active operations                 *)
(***************************************************************************)
\* C37: concurrent wipe_device calls get distinct operation ids, each id is
\* in the registry exactly once while its call is running, and a completing
\* call removes only its own id: every other still-running operation stays
\* registered (once) and so stays cancellable.
C37_RemovesOnlyOwnId ==
    /\ [](\A o \in Ops :
            /\ Occurrences(active_operations, o) <= 1
            /\ callerPc[o] = "waiting" => Occurrences(active_operations, o) = 1)
    /\ [][\A o \in Ops :
            callerPc[o] = "waiting" /\ callerPc'[o] = "returned" /\ callRet'[o] = "Ok" =>
                /\ Occurrences(active_operations', o) = 0
                /\ \A other \in Ops \ {o} :
                      Occurrences(active_operations', other) =
                          Occurrences(active_operations, other)]_vars

\* the call that registered first has completed and only the other
\* operation, still writing and not cancelled, is left in the registry
C37_Witness ==
    \E o, other \in Ops :
        /\ o # other
        /\ callerPc[other] = "returned" /\ callRet[other] = "Ok"
        /\ result[other].status = "Completed"
        /\ callerPc[o] = "waiting" /\ taskPc[o] = "block_write"
        /\ ~cancelled[o]
        /\ active_operations = <<o>>


\* C38: cancel_operation(id) changes nothing but the token of operation id:
\* the set get_active_operations returns, the operations themselves and the
\* tokens of the other operations are unchanged; and a call for an id that is
\* still registered returns Ok, also when its token is already tripped.
C38_CancelFrame ==
    [][cancelRet' # cancelRet \/ cancelled' # cancelled =>
          /\ UNCHANGED <<active_operations, request, callerPc, callRet, taskPc,
                         result, locals, trace, statuses, progress>>
          /\ \A other \in Ops \ {cancelRet'.id} : cancelled'[other] = cancelled[other]
          /\ Registered(cancelRet'.id) =>
                cancelRet'.ret = "Ok" /\ cancelled'[cancelRet'.id]]_vars

\* one of two running, registered operations was cancelled with Ok; the
\* token of the other is untripped and it goes on writing
C38_Witness ==
    \E o, other \in Ops :
        /\ o # other
        /\ cancelRet = [id |-> o, ret |-> "Ok"]
        /\ cancelled[o] /\ ~cancelled[other]
        /\ callerPc[o] = "waiting" /\ callerPc[other] = "waiting"
        /\ get_active_operations = {o, other}
        /\ taskPc[other] = "block_write"


(***************************************************************************)
(* Properties of SafeEraseEngine's device list and of generate_data        *)
(***************************************************************************)
\* the paths in a list
Paths(list) == {list[i] : i \in 1..Len(list)}

\* C39: after discover_devices returned Ok(list), the set of device paths the
\* engine holds open equals the set of paths in the returned list, so
\* start_wipe on a returned path does not fail with DeviceNotFound, while
\* start_wipe on a path that is not in the list returns DeviceNotFound
\* without registering or starting any operation.
C39_HeldEqualsListed ==
    /\ Paths(devices) = Paths(discovered)
    /\ invocation.fn = "start_wipe" =>
          IF invocation.device_path \in Paths(discovered)
          THEN returned.err # "DeviceNotFound"
          ELSE /\ returned.err = "DeviceNotFound"
               /\ active_operations = <<>>
               /\ \A o \in Ops : taskPc[o] = "none"


\* C40: generate_data(size, previous_data) returns exactly size bytes for
\* every pattern variant, every size and every previous_data, in particular
\* for Pattern with an empty byte sequence and for Complement when the
\* previous block has a different length.
C40_ExactlySizeBytes ==
    invocation.fn = "generate_data" =>
        /\ ~returned.panicked
        /\ Len(returned.value) = invocation.size

====
